---- MODULE Spec2Model ----
(***************************************************************************)
(* Conversation orchestration engine of the AI co-worker simulation:       *)
(* SafetyGate (app/api/middleware/safety.py), Router (engine/supervisor.py,*)
(* engine/director.py, engine/graph.py), the persona nodes                 *)
(* (engine/agents/*.py) and the chat endpoint with its in-memory session   *)
(* store (app/api/routes/chat.py).                                         *)
(*                                                                         *)
(* Texts.  A message text is a record [phrases, len]: the set of phrases   *)
(* that occur in it and its raw length in characters.  str.lower() and     *)
(* sanitize_input() act phrase by phrase (Lower, SanitizePhrase); a        *)
(* regular expression is modelled by the set of phrases of the vocabulary  *)
(* it matches case-sensitively (re.search is called without re.IGNORECASE),*)
(* a keyword test `kw in text` by membership of kw in the phrases.         *)
(*                                                                         *)
(* Sentiment and relationship scores are kept in hundredths (0.5 -> 50).   *)
(***************************************************************************)
EXTENDS Integers, Sequences, FiniteSets, TLC

VARIABLES
    now,             \* time.time(), in ticks
    request_counts,  \* RateLimiter.request_counts: user -> list of timestamps
    blocked_users,   \* RateLimiter.blocked_users: user -> blocked-until or NoBlock
    calls,           \* history: the is_allowed calls made, [user, t, ok]
    lastCheck,       \* history: the last check_safety call, [message, limited, verdict]
    session_states,  \* chat._session_states: session id -> dict or NoSession
    turns,           \* the chat() coroutines: turn id -> position and locals
    nturns,          \* number of chat() requests received so far
    audit_events,    \* SafetyAuditLog.events
    l1_cache,        \* ResponseCacheManager.l1_cache.cache, least recently used first
    lastLookup,      \* history: the last cache_response / get_cached_response pair
    emo_state,       \* a session's sentiment_score and agent_emotions
    lastRoute,       \* history: the last supervisor_node call
    pending,         \* the is_allowed calls that have read the clock: caller -> [pc, user, t]
    l2_cache,        \* ResponseCacheManager.l2_cache.cache
    l3_cache,        \* ResponseCacheManager.l3_cache: query -> (result, timestamp) or None
    inv,             \* the invalidate_all call: its position, and whether a store ran since it began
    stored,          \* history: the values stored in the cache tiers so far
    lastCall,        \* history: the last call of a Director function, [fn, arguments, out]
    store            \* the document store's simulation_states, the background saves not
                     \* yet run, and the position of the delete_session call

vars == <<now, request_counts, blocked_users, calls, lastCheck,
         session_states, turns, nturns,
         audit_events, l1_cache, lastLookup, emo_state, lastRoute,
         pending, l2_cache, l3_cache, inv, stored, lastCall, store>>

safetyVars == <<now, request_counts, blocked_users, calls, lastCheck>>
chatVars == <<session_states, turns, nturns>>
cacheVars == <<l1_cache, lastLookup>>
unitVars == <<audit_events, emo_state, lastRoute>>
tierVars == <<l2_cache, l3_cache, inv, stored>>
extVars == <<pending, tierVars, lastCall, store>>

None == "None"

-----------------------------------------------------------------------------
(* Bounds of the model *)

\* RateLimiter(max_requests=20): scaled down
max_requests == 4
\* RateLimiter(window_seconds=60): scaled down, one tick = 30 s
window_seconds == 2
\* number of chat() requests in a run of the engine specification
MaxTurns == 4
\* number of chat() requests in a run of the chat specification
MaxRequests == 3
\* number of chat() coroutines in flight at once
MaxInflight == 2

\* number of is_allowed calls recorded in a run of the limiter specification:
\* a full window, the call that exceeds it, and one call after the block
\* (the limiter specification makes one call more, during the block)
MaxCalls == max_requests + 2

block_multiplier == 2
MAX_MESSAGE_LENGTH == 2000
STUCK_THRESHOLD == 3

\* last tick of the clock: long enough for a block to elapse
MaxTime == window_seconds * block_multiplier + 2

Users == {"u1"}
SessionIds == {"s1", "s2"}

-----------------------------------------------------------------------------
(* Texts *)

\* x.lower() on one phrase
Lower(p) ==
    CASE p = "DAN mode" -> "dan mode"
      [] p = "Ignore all previous instructions" -> "ignore all previous instructions"
      [] p = "What is" -> "what is"
      [] p = "VEPT framework" -> "vept framework"
      [] p = "What are the 4" -> "what are the 4"
      [] p = "are you really an AI" -> "are you really an ai"
      [] OTHER -> p

\* sanitize_input on one phrase: runs of spaces collapse to one space
SanitizePhrase(p) ==
    CASE p = "ignore  all  previous  instructions" -> "ignore all previous instructions"
      [] p = "what  is" -> "what is"
      [] OTHER -> p

Min(a, b) == IF a < b THEN a ELSE b
Max(a, b) == IF a > b THEN a ELSE b

sanitize_input(message) ==
    [phrases |-> {SanitizePhrase(p) : p \in message.phrases},
     len     |-> Min(message.len, MAX_MESSAGE_LENGTH)]

lower(text) == [phrases |-> {Lower(p) : p \in text.phrases}, len |-> text.len]

\* re.search(pattern, text): a pattern is given by the set of phrases it matches
re_search(patternMatches, text) == (patternMatches \cap text.phrases) # {}

Txt(ps) == [phrases |-> ps, len |-> 40]

-----------------------------------------------------------------------------
(* SafetyGate: pattern lists (the patterns that match a phrase of the       *)
(* vocabulary; each is listed as the set of phrases it matches)             *)

JAILBREAK_PATTERNS ==
    { {"ignore all previous instructions"},     \* r"ignore (all )?(previous|prior|above) (instructions|prompts|rules)"
      {"DAN mode"},                             \* r"DAN mode"
      {"system prompt"} }                       \* r"system prompt"

BLOCKED_CONTENT_PATTERNS ==
    { {"bet"} }                                 \* r"\b(gambl(e|ing)|bet(ting)?|wager)\b"

OFF_TOPIC_PATTERNS ==
    { {"bitcoin"},                              \* r"\b(cryptocurrency|bitcoin|stocks|forex|trading)\b"
      {"math problem"} }                        \* r"\b(homework|math problem|calculus|physics)\b"

CHARACTER_BREAK_PATTERNS ==
    { {"who made you"},                         \* r"who made you"
      {"are you really an AI",                  \* r"are you (really|actually) (a |an )?(AI|robot|chatbot)"
       "are you really a robot"} }

MANIPULATION_PATTERNS ==
    { {"i am your admin"} }                     \* r"i (am|'m) your (creator|developer|admin|boss)"

\* leetspeak_map keys
LeetTokens == {"h4ck"}

detect_encoding_tricks(message) ==
    \/ "<base64 run>" \in message.phrases                 \* [A-Za-z0-9+/]{50,}
    \/ \E leet \in LeetTokens : leet \in lower(message).phrases
    \/ "<cyrillic letter>" \in message.phrases            \* [\u0400-\u04FF\u0370-\u03FF]

AnyMatch(patterns, text) == \E pattern \in patterns : re_search(pattern, text)

-----------------------------------------------------------------------------
(* SafetyGate: rate limiter *)

NoBlock == -1

\* is_allowed with the limit test off by one (> for >=)
\* a limiter whose denials during a block push blocked_until further out
is_allowed_ExtendsBlock(rc, bl, user_id, t) ==
    IF bl[user_id] # NoBlock /\ t < bl[user_id]
    THEN [ok |-> FALSE, reason |-> "Rate limited", rc |-> rc,
          bl |-> [bl EXCEPT ![user_id] = t + window_seconds * block_multiplier]]
    ELSE LET bl1    == [bl EXCEPT ![user_id] = NoBlock]
             cutoff == t - window_seconds
             kept   == SelectSeq(rc[user_id], LAMBDA x : x > cutoff)
             rc1    == [rc EXCEPT ![user_id] = kept]
         IN  IF Len(kept) >= max_requests
             THEN [ok |-> FALSE, reason |-> "Rate limit exceeded", rc |-> rc1,
                   bl |-> [bl1 EXCEPT ![user_id] = t + window_seconds * block_multiplier]]
             ELSE [ok |-> TRUE, reason |-> "",
                   rc |-> [rc1 EXCEPT ![user_id] = Append(kept, t)], bl |-> bl1]

is_allowed_OffByOne(rc, bl, user_id, t) ==
    IF bl[user_id] # NoBlock /\ t < bl[user_id]
    THEN [ok |-> FALSE, reason |-> "Rate limited", rc |-> rc, bl |-> bl]
    ELSE LET bl1    == [bl EXCEPT ![user_id] = NoBlock]
             cutoff == t - window_seconds
             kept   == SelectSeq(rc[user_id], LAMBDA x : x > cutoff)
             rc1    == [rc EXCEPT ![user_id] = kept]
         IN  IF Len(kept) > max_requests
             THEN [ok |-> FALSE, reason |-> "Rate limit exceeded", rc |-> rc1,
                   bl |-> [bl1 EXCEPT ![user_id] = t + window_seconds * block_multiplier]]
             ELSE [ok |-> TRUE, reason |-> "",
                   rc |-> [rc1 EXCEPT ![user_id] = Append(kept, t)], bl |-> bl1]

\* RateLimiter.is_allowed(user_id) at time t on the limiter state (rc, bl):
\* the result and the new limiter state
is_allowed(rc, bl, user_id, t) ==
    IF bl[user_id] # NoBlock /\ t < bl[user_id]
    THEN [ok |-> FALSE, reason |-> "Rate limited", rc |-> rc, bl |-> bl]
    ELSE LET bl1    == [bl EXCEPT ![user_id] = NoBlock]
             cutoff == t - window_seconds
             kept   == SelectSeq(rc[user_id], LAMBDA x : x > cutoff)
             rc1    == [rc EXCEPT ![user_id] = kept]
         IN  IF Len(kept) >= max_requests
             THEN [ok |-> FALSE, reason |-> "Rate limit exceeded", rc |-> rc1,
                   bl |-> [bl1 EXCEPT ![user_id] = t + window_seconds * block_multiplier]]
             ELSE [ok |-> TRUE, reason |-> "",
                   rc |-> [rc1 EXCEPT ![user_id] = Append(kept, t)], bl |-> bl1]

-----------------------------------------------------------------------------
(* SafetyGate: check_safety *)

result0 ==
    [is_safe |-> TRUE, blocked_reason |-> None, jailbreak_attempt |-> FALSE,
     off_topic |-> FALSE, character_break |-> FALSE, manipulation_attempt |-> FALSE,
     severity |-> "none", suggested_response |-> None]

\* steps 6 and 7: flag, do not block
FlagChecks(result, msg_lower) ==
    LET r6 == IF AnyMatch(CHARACTER_BREAK_PATTERNS, msg_lower)
              THEN [result EXCEPT !.character_break = TRUE, !.severity = "medium",
                                  !.suggested_response = "character redirect"]
              ELSE result
    IN  IF AnyMatch(MANIPULATION_PATTERNS, msg_lower)
        THEN [r6 EXCEPT !.manipulation_attempt = TRUE, !.severity = "medium"]
        ELSE r6

\* step 8
\* step 8 flagging the message without blocking it
OffTopicCheck_FlagOnly(result, msg_lower) ==
    IF AnyMatch(OFF_TOPIC_PATTERNS, msg_lower)
    THEN [result EXCEPT !.off_topic = TRUE, !.severity = "medium"]
    ELSE result

\* step 8 blocking the message without setting the off_topic flag
OffTopicCheck_NoFlag(result, msg_lower) ==
    IF AnyMatch(OFF_TOPIC_PATTERNS, msg_lower)
    THEN [result EXCEPT !.is_safe = FALSE,
                        !.blocked_reason = "Off-topic request",
                        !.severity = "medium",
                        !.suggested_response = "off-topic redirect"]
    ELSE result

OffTopicCheck(result, msg_lower) ==
    IF AnyMatch(OFF_TOPIC_PATTERNS, msg_lower)
    THEN [result EXCEPT !.is_safe = FALSE, !.off_topic = TRUE,
                        !.blocked_reason = "Off-topic request", !.severity = "medium",
                        !.suggested_response = "off-topic redirect"]
    ELSE result

\* step 4
JailbreakHit(msg_lower) == AnyMatch(JAILBREAK_PATTERNS, msg_lower)

\* check_safety after the rate-limit step with the length test made on the
\* sanitized (already truncated) text instead of the raw message
ContentChecks_LengthOfSanitized(message) ==
    LET sanitized == sanitize_input(message)
        msg_lower == lower(sanitized)
    IN  IF sanitized.len > MAX_MESSAGE_LENGTH
        THEN [result0 EXCEPT !.is_safe = FALSE, !.blocked_reason = "Message too long",
                             !.severity = "low"]
        ELSE IF detect_encoding_tricks(message)
        THEN [result0 EXCEPT !.is_safe = FALSE,
                             !.blocked_reason = "Suspicious encoding detected",
                             !.jailbreak_attempt = TRUE, !.severity = "high"]
        ELSE IF JailbreakHit(msg_lower)
        THEN [result0 EXCEPT !.is_safe = FALSE,
                             !.blocked_reason = "Jailbreak attempt detected",
                             !.jailbreak_attempt = TRUE, !.severity = "high",
                             !.suggested_response = "stay in character"]
        ELSE IF AnyMatch(BLOCKED_CONTENT_PATTERNS, msg_lower)
        THEN [result0 EXCEPT !.is_safe = FALSE,
                             !.blocked_reason = "Message contains blocked content",
                             !.severity = "high",
                             !.suggested_response = "cannot engage"]
        ELSE OffTopicCheck(FlagChecks(result0, msg_lower), msg_lower)

\* check_safety after the rate-limit step: steps 1 to 8 on the message
ContentChecks(message) ==
    LET sanitized == sanitize_input(message)
        msg_lower == lower(sanitized)
    IN  IF message.len > MAX_MESSAGE_LENGTH
        THEN [result0 EXCEPT !.is_safe = FALSE, !.blocked_reason = "Message too long",
                             !.severity = "low"]
        ELSE IF detect_encoding_tricks(message)
        THEN [result0 EXCEPT !.is_safe = FALSE,
                             !.blocked_reason = "Suspicious encoding detected",
                             !.jailbreak_attempt = TRUE, !.severity = "high"]
        ELSE IF JailbreakHit(msg_lower)
        THEN [result0 EXCEPT !.is_safe = FALSE,
                             !.blocked_reason = "Jailbreak attempt detected",
                             !.jailbreak_attempt = TRUE, !.severity = "high",
                             !.suggested_response = "stay in character"]
        ELSE IF AnyMatch(BLOCKED_CONTENT_PATTERNS, msg_lower)
        THEN [result0 EXCEPT !.is_safe = FALSE,
                             !.blocked_reason = "Message contains blocked content",
                             !.severity = "high",
                             !.suggested_response = "cannot engage"]
        ELSE OffTopicCheck(FlagChecks(result0, msg_lower), msg_lower)

\* check_safety(message, user_id, check_rate_limit) at time t: the verdict and
\* the new limiter state
check_safety(rc, bl, message, user_id, check_rate_limit, t) ==
    LET a == is_allowed(rc, bl, user_id, t)
    IN  IF check_rate_limit /\ ~a.ok
        THEN [verdict |-> [result0 EXCEPT !.is_safe = FALSE, !.blocked_reason = a.reason,
                                          !.severity = "high"],
              rc |-> a.rc, bl |-> a.bl]
        ELSE [verdict |-> ContentChecks(message),
              rc |-> IF check_rate_limit THEN a.rc ELSE rc,
              bl |-> IF check_rate_limit THEN a.bl ELSE bl]

-----------------------------------------------------------------------------
(* StateStore: engine/state.py *)

TaskKeys ==
    {"problem_statement_written", "ceo_consulted", "chro_consulted",
     "competency_model_drafted", "360_program_designed",
     "regional_manager_consulted", "rollout_plan_built", "kpi_table_defined"}

DEFAULT_TASK_PROGRESS == [k \in TaskKeys |-> FALSE]

ContentAgents == {"CEO", "CHRO", "RegionalManager"}

create_default_emotional_memory ==
    [relationship_score |-> 50, tension_count |-> 0, last_topic |-> {},
     memorable_events |-> << >>]

\* seq[-n:]
LastN(seq, n) == SubSeq(seq, Max(1, Len(seq) - n + 1), Len(seq))

\* the substrings of a phrase that some keyword list looks for
Substrings(p) ==
    CASE p = "standardization" -> {"standardization", "standardiz"}
      [] p = "pillars" -> {"pillars", "pillar"}
      [] OTHER -> {p}

\* kw in text
Contains(text, kw) == \E p \in text.phrases : kw \in Substrings(p)

\* update_agent_emotion without the clamping of the score
update_agent_emotion_Unclamped(state, agent_id, relationship_delta, tension_increase, new_topic, memorable_event) ==
    LET agent_emo == state.agent_emotions[agent_id]
        new_score == agent_emo.relationship_score + relationship_delta
        events    == Append(agent_emo.memorable_events, memorable_event)
    IN  [state.agent_emotions EXCEPT ![agent_id] =
            [relationship_score |-> new_score,
             tension_count |-> IF tension_increase THEN agent_emo.tension_count + 1
                               ELSE agent_emo.tension_count,
             last_topic |-> IF new_topic # {} THEN new_topic ELSE agent_emo.last_topic,
             memorable_events |-> IF memorable_event # ""
                                  THEN LastN(events, 5)
                                  ELSE agent_emo.memorable_events]]

\* update_agent_emotion keeping the first five events instead of the last five
update_agent_emotion_KeepFirst(state, agent_id, relationship_delta, tension_increase, new_topic, memorable_event) ==
    LET agent_emo == state.agent_emotions[agent_id]
        new_score == agent_emo.relationship_score + relationship_delta
        events    == Append(agent_emo.memorable_events, memorable_event)
    IN  [state.agent_emotions EXCEPT ![agent_id] =
            [relationship_score |-> Max(0, Min(100, new_score)),
             tension_count |-> IF tension_increase THEN agent_emo.tension_count + 1
                               ELSE agent_emo.tension_count,
             last_topic |-> IF new_topic # {} THEN new_topic ELSE agent_emo.last_topic,
             memorable_events |-> IF memorable_event # ""
                                  THEN SubSeq(events, 1, Min(5, Len(events)))
                                  ELSE agent_emo.memorable_events]]

update_agent_emotion(state, agent_id, relationship_delta, tension_increase, new_topic, memorable_event) ==
    LET agent_emo == state.agent_emotions[agent_id]
        new_score == agent_emo.relationship_score + relationship_delta
        events    == Append(agent_emo.memorable_events, memorable_event)
    IN  [state.agent_emotions EXCEPT ![agent_id] =
            [relationship_score |-> Max(0, Min(100, new_score)),
             tension_count |-> IF tension_increase THEN agent_emo.tension_count + 1
                               ELSE agent_emo.tension_count,
             last_topic |-> IF new_topic # {} THEN new_topic ELSE agent_emo.last_topic,
             memorable_events |-> IF memorable_event # ""
                                  THEN LastN(events, 5)
                                  ELSE agent_emo.memorable_events]]

-----------------------------------------------------------------------------
(* Router, Supervisor stage: engine/supervisor.py *)

ceo_keywords ==
    {"strategy", "brand", "dna", "mission", "culture", "autonomy", "vision",
     "budget", "craftsmanship", "heritage", "innovation", "technology",
     "luxury", "identity", "standardization", "centralization", "values",
     "ceo", "group dna", "brand autonomy"}

chro_keywords ==
    {"hr", "competency", "competencies", "360", "feedback", "coaching",
     "talent", "pillar", "pillars", "behavioral", "performance", "training",
     "framework", "vision entrepreneurship passion trust", "chro"}

regional_keywords ==
    {"regional", "europe", "rollout", "france", "italy", "uk", "germany",
     "timeline", "q3", "pilot", "cascade", "logistics", "local",
     "train-the-trainer", "regional manager"}

Score(keywords, msg) == Cardinality({kw \in keywords : Contains(msg, kw)})

\* _fallback_keyword_route giving a tie between CEO and CHRO to CHRO
_fallback_keyword_route_ChroOnTie(user_message) ==
    LET msg == lower(user_message)
        ceo_score == Score(ceo_keywords, msg)
        chro_score == Score(chro_keywords, msg)
        regional_score == Score(regional_keywords, msg)
    IN  IF regional_score > ceo_score /\ regional_score > chro_score
        THEN "RegionalManager"
        ELSE IF chro_score >= ceo_score THEN "CHRO" ELSE "CEO"

_fallback_keyword_route(user_message) ==
    LET msg == lower(user_message)
        ceo_score == Score(ceo_keywords, msg)
        chro_score == Score(chro_keywords, msg)
        regional_score == Score(regional_keywords, msg)
    IN  IF regional_score > ceo_score /\ regional_score > chro_score
        THEN "RegionalManager"
        ELSE IF chro_score > ceo_score THEN "CHRO" ELSE "CEO"

\* response.content.strip().split()[0], stripped of quotes and punctuation;
\* "CEO" when the classifier's answer is empty
Decision(content) ==
    CASE content = "" -> "CEO"
      [] content = "'CHRO'." -> "CHRO"
      [] OTHER -> content

valid_speakers == {"CEO", "CHRO", "RegionalManager", "SafetyBlock"}

\* supervisor_node that lets a "Mentor" answer of the classifier through
supervisor_node_MentorAccepted(state, content) ==
    IF state.next_speaker \in ContentAgents
    THEN [state EXCEPT !.turn_count = state.turn_count + 1]
    ELSE LET decision == Decision(content)
             routed == IF decision \notin (valid_speakers \cup {"Mentor"}) THEN "CEO"
                       ELSE decision
         IN  [state EXCEPT !.next_speaker = routed,
                           !.turn_count = state.turn_count + 1]

\* supervisor_node(state): the state with the node's update merged in;
\* content is the classifier's answer, used only without an explicit choice
supervisor_node(state, content) ==
    IF state.next_speaker \in ContentAgents
    THEN [state EXCEPT !.turn_count = state.turn_count + 1]
    ELSE LET decision == Decision(content)
             routed == IF decision = "Mentor"
                       THEN _fallback_keyword_route(state.user_message)
                       ELSE IF decision \notin valid_speakers THEN "CEO"
                       ELSE decision
         IN  [state EXCEPT !.next_speaker = routed,
                           !.turn_count = state.turn_count + 1]

-----------------------------------------------------------------------------
(* Router, Director stage: engine/director.py *)

PROGRESS_SIGNALS ==
    [k \in TaskKeys |->
        CASE k = "ceo_consulted" ->
                {"dna", "autonomy", "brand identity", "group dna", "mission", "heritage"}
          [] k = "chro_consulted" ->
                {"competency", "vision", "entrepreneurship", "passion", "trust",
                 "framework", "360"}
          [] k = "problem_statement_written" ->
                {"problem statement", "key tension", "challenge is", "the problem"}
          [] k = "competency_model_drafted" ->
                {"junior level", "mid level", "senior level", "behavior indicator"}
          [] k = "360_program_designed" ->
                {"rater", "anonymity", "coaching", "survey", "feedback"}
          [] k = "regional_manager_consulted" ->
                {"europe", "regional", "rollout", "france", "italy", "train-the-trainer"}
          [] k = "rollout_plan_built" ->
                {"phase 1", "phase 2", "pilot", "cascade", "timeline"}
          [] k = "kpi_table_defined" ->
                {"kpi", "metric", "dashboard", "promotion rate", "mobility rate"}]

\* " ".join(msg.content.lower() for msg in messages[-5:])
RecentText(messages) ==
    LET recent == LastN(messages, 5)
    IN  [phrases |-> UNION {lower(recent[i].content).phrases : i \in 1..Len(recent)},
         len |-> 0]

detect_progress(state) ==
    LET recent_text == RecentText(state.messages)
    IN  [k \in TaskKeys |->
            \/ state.task_progress[k]
            \/ \E kw \in PROGRESS_SIGNALS[k] : Contains(recent_text, kw)]

negative_signals ==
    {"i don't know", "confused", "help", "stuck", "what do you mean",
     "i'm lost", "no idea", "unclear", "don't understand", "??"}

positive_signals ==
    {"great", "thanks", "i think", "my plan is", "here's my proposal",
     "i propose", "let me try", "i'll create", "makes sense"}

\* detect_sentiment without the clamping to [0.0, 1.0]
detect_sentiment_Unclamped(state) ==
    LET user_msg == lower(state.user_message)
        neg_count == Score(negative_signals, user_msg)
        pos_count == Score(positive_signals, user_msg)
        current == state.sentiment_score
    IN  IF neg_count > pos_count THEN current - 15
        ELSE IF pos_count > neg_count THEN current + 10
        ELSE current

\* detect_sentiment with a change proportional to the number of matches
detect_sentiment_PerMatch(state) ==
    LET user_msg == lower(state.user_message)
        neg_count == Score(negative_signals, user_msg)
        pos_count == Score(positive_signals, user_msg)
        current == state.sentiment_score
    IN  IF neg_count > pos_count THEN Max(0, current - 15 * (neg_count - pos_count))
        ELSE IF pos_count > neg_count THEN Min(100, current + 10 * (pos_count - neg_count))
        ELSE current

detect_sentiment(state) ==
    LET user_msg == lower(state.user_message)
        neg_count == Score(negative_signals, user_msg)
        pos_count == Score(positive_signals, user_msg)
        current == state.sentiment_score
    IN  IF neg_count > pos_count THEN Max(0, current - 15)
        ELSE IF pos_count > neg_count THEN Min(100, current + 10)
        ELSE current

\* should_trigger_hint that looks at the sentiment only
should_trigger_hint_SentimentOnly(state) ==
    LET frustrated == state.sentiment_score < 30
    IN  frustrated

\* should_trigger_hint that also fires on the total number of turns
should_trigger_hint_TurnCount(state) ==
    LET stuck == state.stuck_counter >= STUCK_THRESHOLD
        frustrated == state.sentiment_score < 30
    IN  stuck \/ frustrated \/ state.turn_count >= STUCK_THRESHOLD

should_trigger_hint(state) ==
    LET stuck == state.stuck_counter >= STUCK_THRESHOLD
        frustrated == state.sentiment_score < 30
    IN  stuck \/ frustrated

\* director_check that overrides whether or not the user chose the agent
director_check_IgnoresChoice(state) ==
    LET old_progress == state.task_progress
        new_progress == detect_progress(state)
        progress_made == old_progress # new_progress
        new_sentiment == detect_sentiment(state)
        new_stuck == IF progress_made THEN 0 ELSE state.stuck_counter + 1
        temp_state == [state EXCEPT !.task_progress = new_progress,
                                    !.sentiment_score = new_sentiment,
                                    !.stuck_counter = new_stuck,
                                    !.hint_triggered = FALSE]
    IN  IF should_trigger_hint(temp_state)
        THEN [temp_state EXCEPT !.hint_triggered = TRUE,
                                !.next_speaker = "Mentor",
                                !.stuck_counter = 0]
        ELSE temp_state

\* director_check(state): the state with the Director's updates merged in
\* director_check that leaves stuck_counter as it is when it overrides
director_check_NoReset(state) ==
    LET old_progress == state.task_progress
        new_progress == detect_progress(state)
        progress_made == old_progress # new_progress
        new_sentiment == detect_sentiment(state)
        new_stuck == IF progress_made THEN 0 ELSE state.stuck_counter + 1
        temp_state == [state EXCEPT !.task_progress = new_progress,
                                    !.sentiment_score = new_sentiment,
                                    !.stuck_counter = new_stuck,
                                    !.hint_triggered = FALSE]
    IN  IF should_trigger_hint(temp_state) /\ ~state.user_explicit_choice
        THEN [temp_state EXCEPT !.hint_triggered = TRUE,
                                !.next_speaker = "Mentor"]
        ELSE temp_state

director_check(state) ==
    LET old_progress == state.task_progress
        new_progress == detect_progress(state)
        progress_made == old_progress # new_progress
        new_sentiment == detect_sentiment(state)
        new_stuck == IF progress_made THEN 0 ELSE state.stuck_counter + 1
        temp_state == [state EXCEPT !.task_progress = new_progress,
                                    !.sentiment_score = new_sentiment,
                                    !.stuck_counter = new_stuck,
                                    !.hint_triggered = FALSE]
    IN  IF should_trigger_hint(temp_state) /\ ~state.user_explicit_choice
        THEN [temp_state EXCEPT !.hint_triggered = TRUE,
                                !.next_speaker = "Mentor",
                                !.stuck_counter = 0]
        ELSE temp_state

-----------------------------------------------------------------------------
(* The graph and its nodes: engine/graph.py, engine/agents/*.py *)

route_after_director(state) ==
    IF state.next_speaker \in {"CEO", "CHRO", "RegionalManager", "Mentor", "SafetyBlock"}
    THEN state.next_speaker
    ELSE "CEO"

AIMessage(content, agent_id, id) ==
    [role |-> "ai", content |-> content, agent_id |-> agent_id, id |-> id]

HumanMessage(content, id) ==
    [role |-> "user", content |-> content, agent_id |-> None, id |-> id]

SAFETY_BLOCK_RESPONSE == Txt({"Let's stay focused on the simulation"})

safety_block_node(state) ==
    [state EXCEPT !.messages = Append(state.messages,
                                      AIMessage(SAFETY_BLOCK_RESPONSE, "System", state.id)),
                  !.previous_speaker = "System",
                  !.safety_flagged = TRUE]

\* BaseNPCAgent.ainvoke: the generated reply is appended, tagged with the agent
ainvoke(state, agent_id, reply) ==
    [state EXCEPT !.messages = Append(state.messages, AIMessage(reply, agent_id, state.id)),
                  !.previous_speaker = agent_id]

ConsultedKey(agent_id) ==
    CASE agent_id = "CEO" -> "ceo_consulted"
      [] agent_id = "CHRO" -> "chro_consulted"
      [] agent_id = "RegionalManager" -> "regional_manager_consulted"

TensionWords(agent_id) ==
    CASE agent_id = "CEO" -> {"standardiz", "centraliz", "uniform", "same for all"}
      [] agent_id = "CHRO" -> {"skip anonymity", "no coaching", "ignore feedback"}
      [] agent_id = "RegionalManager" -> {"q3 rollout", "september", "rush", "same everywhere"}

MemorableEvent(agent_id) ==
    CASE agent_id = "CEO" -> "User proposed standardization - CEO pushed back"
      [] agent_id = "CHRO" -> "User dismissed HR best practices - CHRO concerned"
      [] agent_id = "RegionalManager" ->
            "User pushed aggressive timeline - Regional Manager resisted"

\* a persona node that writes the CEO's memory whichever persona replies
persona_node_UpdatesCeo(state, agent_id, reply) ==
    LET result == ainvoke(state, agent_id, reply)
        user_msg == lower(state.user_message)
        tension == \E w \in TensionWords(agent_id) : Contains(user_msg, w)
    IN  [result EXCEPT
            !.task_progress = [state.task_progress EXCEPT ![ConsultedKey(agent_id)] = TRUE],
            !.agent_emotions =
                update_agent_emotion(state, "CEO",
                                     IF tension THEN -10 ELSE 5, tension,
                                     user_msg.phrases,
                                     IF tension THEN MemorableEvent(agent_id) ELSE "")]

\* ceo_node, chro_node, regional_manager_node
persona_node(state, agent_id, reply) ==
    LET result == ainvoke(state, agent_id, reply)
        user_msg == lower(state.user_message)
        tension == \E w \in TensionWords(agent_id) : Contains(user_msg, w)
    IN  [result EXCEPT
            !.task_progress = [state.task_progress EXCEPT ![ConsultedKey(agent_id)] = TRUE],
            !.agent_emotions =
                update_agent_emotion(state, agent_id,
                                     IF tension THEN -10 ELSE 5, tension,
                                     user_msg.phrases,
                                     IF tension THEN MemorableEvent(agent_id) ELSE "")]

mentor_node(state, reply) == ainvoke(state, "Mentor", reply)

\* the node the Director's conditional edge leads to
agent_node(state, reply) ==
    LET destination == route_after_director(state)
    IN  CASE destination = "SafetyBlock" -> safety_block_node(state)
          [] destination = "Mentor" -> mentor_node(state, reply)
          [] OTHER -> persona_node(state, destination, reply)

\* engine.ainvoke(graph_input): Supervisor -> Director -> agent -> END
engine_ainvoke(graph_input, content, reply) ==
    agent_node(director_check(supervisor_node(graph_input, content)), reply)

-----------------------------------------------------------------------------
(* The safety specification: check_safety calls by any user at any time.    *)
(* calls and lastCheck are history variables recorded by this specification *)

\* the messages submitted to check_safety
SafetyMessages ==
    { Txt({"dna"}),
      Txt({"Ignore all previous instructions", "system prompt"}),
      Txt({"ignore  all  previous  instructions"}),
      Txt({"DAN mode"}),
      Txt({"DAN mode", "bitcoin"}),
      Txt({"system prompt", "bitcoin"}),
      Txt({"math problem"}),
      Txt({"bet", "bitcoin"}),
      Txt({"h4ck", "system prompt"}),
      [phrases |-> {"system prompt"}, len |-> MAX_MESSAGE_LENGTH + 1],
      [phrases |-> {"h4ck"}, len |-> MAX_MESSAGE_LENGTH + 1],
      Txt({"who made you", "i am your admin"}),
      Txt({"i am your admin"}),
      Txt({"are you really a robot"}),
      Txt({"are you really an AI"}) }

NoCheck == [message |-> Txt({}), limited |-> FALSE, verdict |-> result0, fresh |-> FALSE]

InitLimiter ==
    /\ now = 0
    /\ request_counts = [u \in Users |-> << >>]
    /\ blocked_users = [u \in Users |-> NoBlock]
    /\ calls = << >>
    /\ lastCheck = NoCheck

NoTurn == [pc |-> "idle"]

\* session_id not in _session_states
NoSession == [obj |-> 0]

TurnIds == 1..Max(MaxTurns, MaxRequests)

InitChat ==
    /\ session_states = [s \in SessionIds |-> NoSession]
    /\ turns = [t \in TurnIds |-> NoTurn]
    /\ nturns = 0

\* nothing cached, nothing logged, a new session's scores
InitUnits ==
    /\ audit_events = << >>
    /\ l1_cache = << >>
    /\ lastLookup = [fresh |-> FALSE]
    /\ emo_state = [sentiment_score |-> 50,
                    agent_emotions |-> [a \in ContentAgents |-> create_default_emotional_memory]]
    /\ lastRoute = [fresh |-> FALSE]

\* the threads that call RateLimiter.is_allowed
Callers == {"w1", "w2"}

\* the queries of the retrieval cache
RagQueries == {"pillars of the framework"}

NoCall == [pc |-> "idle"]

EmptyDict == [q \in {} |-> None]

InitExt ==
    /\ pending = [w \in Callers |-> NoCall]
    /\ l2_cache = << >>
    /\ l3_cache = EmptyDict
    /\ inv = [pc |-> "idle", quiet |-> FALSE]
    /\ stored = {}
    /\ lastCall = [fn |-> "none"]
    /\ store = [simulation_states |-> [s \in SessionIds |-> NoSession],
                background_tasks |-> {},
                deleting |-> [pc |-> "idle"]]

Init == InitLimiter /\ InitChat /\ InitUnits /\ InitExt

\* RateLimiter.is_allowed(user_id) is called (limiter specification)
IsAllowed(user_id) ==
    LET a == is_allowed(request_counts, blocked_users, user_id, now)
    IN  /\ Len(calls) <= MaxCalls    \* one more call, made during the block
        /\ request_counts' = a.rc
        /\ blocked_users' = a.bl
        /\ calls' = Append(calls, [user |-> user_id, t |-> now, ok |-> a.ok])
        /\ UNCHANGED <<now, lastCheck, chatVars, cacheVars, unitVars, extVars>>

\* check_safety(message, user_id, check_rate_limit) is called (safety specification)
CheckSafety(message, user_id, check_rate_limit) ==
    LET c == check_safety(request_counts, blocked_users, message, user_id,
                          check_rate_limit, now)
    IN  /\ request_counts' = c.rc
        /\ blocked_users' = c.bl
        /\ lastCheck' = [message |-> message, verdict |-> c.verdict, fresh |-> TRUE,
                         limited |-> check_rate_limit /\
                            ~is_allowed(request_counts, blocked_users, user_id, now).ok]
        /\ UNCHANGED <<now, calls, chatVars, cacheVars, unitVars, extVars>>

\* time passes
Tick ==
    /\ now < MaxTime
    /\ now' = now + 1
    /\ UNCHANGED <<request_counts, blocked_users, calls, lastCheck, chatVars,
                   cacheVars, unitVars, extVars>>

NextLimiter ==
    \/ \E u \in Users : IsAllowed(u)
    \/ Tick

SpecLimiter == Init /\ [][NextLimiter]_vars

\* RateLimiter.is_allowed called from several threads.  The clock is read
\* before the lock is taken (now = time.time() precedes `with self.lock`),
\* the rest of the call runs under the lock.
IsAllowedEnter(w, user_id) ==
    /\ pending[w].pc = "idle"
    /\ Len(calls) + Cardinality({v \in Callers : pending[v].pc = "lock"}) < MaxCalls
    /\ pending' = [pending EXCEPT ![w] = [pc |-> "lock", user |-> user_id, t |-> now]]
    /\ UNCHANGED <<safetyVars, chatVars, cacheVars, unitVars, tierVars, lastCall, store>>

IsAllowedLocked(w) ==
    /\ pending[w].pc = "lock"
    /\ LET a == is_allowed(request_counts, blocked_users, pending[w].user, pending[w].t)
       IN  /\ request_counts' = a.rc
           /\ blocked_users' = a.bl
           /\ calls' = Append(calls, [user |-> pending[w].user, t |-> pending[w].t,
                                      ok |-> a.ok])
    /\ pending' = [pending EXCEPT ![w] = NoCall]
    /\ UNCHANGED <<now, lastCheck, chatVars, cacheVars, unitVars, tierVars, lastCall, store>>

NextLimiterThreads ==
    \/ \E w \in Callers, u \in Users : IsAllowedEnter(w, u)
    \/ \E w \in Callers : IsAllowedLocked(w)
    \/ Tick

SpecLimiterThreads == Init /\ [][NextLimiterThreads]_vars

NextSafety ==
    \/ \E m \in SafetyMessages, u \in Users, rl \in BOOLEAN : CheckSafety(m, u, rl)
    \/ Tick

SpecSafety == Init /\ [][NextSafety]_vars

-----------------------------------------------------------------------------
(* The chat endpoint: api/routes/chat.py.  A chat() coroutine runs to its   *)
(* next await in one step: the session load (when the session is not in     *)
(* memory) and engine.ainvoke are the two places where it is suspended.     *)
(* The document store holds no session in these specifications, so          *)
(* _load_session_from_mongo returns None.                                   *)

\* the dict _get_or_create_session_state_async creates; obj identifies the
\* dict object (the turn that created it)
NewSessionState(obj) ==
    [obj |-> obj,
     messages |-> << >>,
     previous_speaker |-> "",
     sentiment_score |-> 50,
     turn_count |-> 0,
     stuck_counter |-> 0,
     task_progress |-> DEFAULT_TASK_PROGRESS,
     agent_emotions |-> [a \in ContentAgents |-> create_default_emotional_memory],
     user_approach_style |-> "unknown",
     repeated_mistakes |-> << >>,
     session_narrative |-> ""]

\* graph_input built from the session dict and the request
GraphInput(session_state, message, target_agent, id) ==
    [id |-> id,
     messages |-> Append(session_state.messages, HumanMessage(message, id)),
     user_message |-> message,
     next_speaker |-> IF target_agent = None THEN "" ELSE target_agent,
     user_explicit_choice |-> target_agent \in ContentAgents,
     previous_speaker |-> session_state.previous_speaker,
     sentiment_score |-> session_state.sentiment_score,
     turn_count |-> session_state.turn_count,
     stuck_counter |-> session_state.stuck_counter,
     task_progress |-> session_state.task_progress,
     hint_triggered |-> FALSE,
     safety_flagged |-> FALSE,
     agent_emotions |-> session_state.agent_emotions,
     user_approach_style |-> session_state.user_approach_style,
     repeated_mistakes |-> session_state.repeated_mistakes,
     session_narrative |-> session_state.session_narrative]

\* session_state[...] = result.get(...): the commit of a turn's result
CommitResult(session_state, result) ==
    [session_state EXCEPT
        !.messages = result.messages,
        !.previous_speaker = result.previous_speaker,
        !.sentiment_score = result.sentiment_score,
        !.turn_count = result.turn_count,
        !.stuck_counter = result.stuck_counter,
        !.task_progress = result.task_progress,
        !.agent_emotions = result.agent_emotions,
        !.user_approach_style = result.user_approach_style,
        !.repeated_mistakes = result.repeated_mistakes,
        !.session_narrative = result.session_narrative]

\* the last AI message of the result names the responding agent
AgentName(result) == result.messages[Len(result.messages)].agent_id

InFlight == {t \in TurnIds : turns[t].pc \in {"load", "engine", "commit"}}

\* the turn is over: outcome, and the agent and response text of the ChatResponse
DoneTurn(session_id, outcome, agent, response) ==
    [pc |-> "done", session_id |-> session_id, outcome |-> outcome,
     agent |-> agent, response |-> response]

\* the blocked branch: ChatResponse(agent="System", response=suggested_response);
\* response is a required str, so a None makes the construction raise
BlockedResponse(session_id, verdict) ==
    IF verdict.suggested_response = None
    THEN DoneTurn(session_id, "error", None, None)
    ELSE DoneTurn(session_id, "blocked", "System", verdict.suggested_response)

ENGINE_ERROR_RESPONSE == Txt({"I'm having trouble processing that"})

\* a chat() that looks the session up before the safety check, so that a
\* blocked turn creates the session
ChatBegin_SessionFirst(session_id, user_id, message, target_agent, limit, maxreq) ==
    LET t == nturns + 1
        c == check_safety(request_counts, blocked_users, message, user_id, TRUE, now)
        req == [session_id |-> session_id, user_id |-> user_id,
                message |-> message, target_agent |-> target_agent]
    IN  /\ nturns < maxreq
        /\ Cardinality(InFlight) < limit
        /\ nturns' = t
        /\ request_counts' = c.rc
        /\ blocked_users' = c.bl
        /\ session_states' =
              IF ~c.verdict.is_safe /\ session_states[session_id].obj = 0
              THEN [session_states EXCEPT ![session_id] = NewSessionState(t)]
              ELSE session_states
        /\ turns' = [turns EXCEPT ![t] =
              IF ~c.verdict.is_safe
              THEN BlockedResponse(session_id, c.verdict)
              ELSE IF session_states[session_id].obj # 0
              THEN [pc |-> "engine", req |-> req,
                    obj |-> session_states[session_id].obj,
                    graph_input |-> GraphInput(session_states[session_id], message,
                                               target_agent, t)]
              ELSE [pc |-> "load", req |-> req]]
        /\ UNCHANGED <<now, calls, lastCheck, cacheVars, unitVars, extVars>>

\* chat(request) up to its first suspension: safety check, then either the
\* blocked response, or the session lookup and graph_input
ChatBegin(session_id, user_id, message, target_agent, limit, maxreq) ==
    LET t == nturns + 1
        c == check_safety(request_counts, blocked_users, message, user_id, TRUE, now)
        req == [session_id |-> session_id, user_id |-> user_id,
                message |-> message, target_agent |-> target_agent]
    IN  /\ nturns < maxreq
        /\ Cardinality(InFlight) < limit
        /\ nturns' = t
        /\ request_counts' = c.rc
        /\ blocked_users' = c.bl
        /\ turns' = [turns EXCEPT ![t] =
              IF ~c.verdict.is_safe
              THEN BlockedResponse(session_id, c.verdict)
              ELSE IF session_states[session_id].obj # 0
              THEN [pc |-> "engine", req |-> req,
                    obj |-> session_states[session_id].obj,
                    graph_input |-> GraphInput(session_states[session_id], message,
                                               target_agent, t)]
              ELSE [pc |-> "load", req |-> req]]
        /\ UNCHANGED <<now, calls, lastCheck, session_states, cacheVars, unitVars, extVars>>

\* _get_or_create_session_state_async resumes after the document store
\* answered: a new dict is stored under the session id and used
LoadDone(t) ==
    /\ turns[t].pc = "load"
    /\ LET req == turns[t].req
           session_state == NewSessionState(t)
       IN  /\ session_states' = [session_states EXCEPT ![req.session_id] = session_state]
           /\ turns' = [turns EXCEPT ![t] =
                 [pc |-> "engine", req |-> req, obj |-> t,
                  graph_input |-> GraphInput(session_state, req.message,
                                             req.target_agent, t)]]
    /\ UNCHANGED <<safetyVars, nturns, cacheVars, unitVars, extVars>>

\* engine.ainvoke returns: content is the classifier's answer, reply the
\* generated text
EngineReturn(t, content, reply) ==
    /\ turns[t].pc = "engine"
    /\ turns' = [turns EXCEPT ![t] =
          [pc |-> "commit", req |-> turns[t].req, obj |-> turns[t].obj,
           graph_input |-> turns[t].graph_input,
           supervised |-> supervisor_node(turns[t].graph_input, content).next_speaker,
           result |-> engine_ainvoke(turns[t].graph_input, content, reply)]]
    /\ UNCHANGED <<safetyVars, session_states, nturns, cacheVars, unitVars, extVars>>

\* a failure path that keeps the Supervisor's turn_count and the user message
EngineRaise_KeepsPartialState(t) ==
    /\ turns[t].pc = "engine"
    /\ LET sid == turns[t].req.session_id
           g == turns[t].graph_input
       IN  session_states' = [session_states EXCEPT ![sid].messages = g.messages,
                                                    ![sid].turn_count = g.turn_count + 1]
    /\ turns' = [turns EXCEPT ![t] =
          DoneTurn(turns[t].req.session_id, "failed", "System", ENGINE_ERROR_RESPONSE)]
    /\ UNCHANGED <<safetyVars, nturns, cacheVars, unitVars, extVars>>

\* engine.ainvoke raises (a failed or timed-out model call): the fallback
\* response is returned and nothing is committed
EngineRaise(t) ==
    /\ turns[t].pc = "engine"
    /\ turns' = [turns EXCEPT ![t] = DoneTurn(turns[t].req.session_id, "failed", "System", ENGINE_ERROR_RESPONSE)]
    /\ UNCHANGED <<safetyVars, session_states, nturns, cacheVars, unitVars, extVars>>

\* a commit that writes the result into every stored session instead of the
\* one the coroutine holds
ChatCommit_EverySession(t) ==
    /\ turns[t].pc = "commit"
    /\ session_states' =
          [sid \in SessionIds |->
              IF session_states[sid].obj # 0
              THEN CommitResult(session_states[sid], turns[t].result)
              ELSE session_states[sid]]
    /\ turns' = [turns EXCEPT ![t] =
          DoneTurn(turns[t].req.session_id, "committed", AgentName(turns[t].result),
                   turns[t].result.messages[Len(turns[t].result.messages)].content)]
    /\ UNCHANGED <<safetyVars, nturns, cacheVars, unitVars, extVars>>

\* chat() resumes with the result: it is written into the session dict the
\* coroutine holds, which is the stored one unless it was replaced meanwhile
ChatCommit(t) ==
    /\ turns[t].pc = "commit"
    /\ LET sid == turns[t].req.session_id
           cur == session_states[sid]
       IN  session_states' =
              IF cur.obj = turns[t].obj
              THEN [session_states EXCEPT ![sid] = CommitResult(cur, turns[t].result)]
              ELSE session_states
    /\ turns' = [turns EXCEPT ![t] =
          DoneTurn(turns[t].req.session_id, "committed", AgentName(turns[t].result),
                   turns[t].result.messages[Len(turns[t].result.messages)].content)]
    /\ UNCHANGED <<safetyVars, nturns, cacheVars, unitVars, extVars>>

-----------------------------------------------------------------------------
(* Inputs *)

\* what the classifier answers
ClassifierAnswers == {"CHRO", "SafetyBlock", "Mentor", "'CHRO'.", "Banana", ""}

\* request.target_agent
Targets == {None, "RegionalManager", "Mentor"}

\* generated replies
Replies == {Txt({"certainly"})}

\* user messages of the engine specification
EngineMessages ==
    { Txt({"hello"}),
      Txt({"kpi", "thanks"}),
      Txt({"bitcoin"}) }

\* the engine specification: one client, one session, one turn at a time
NextEngine ==
    \/ \E m \in EngineMessages, tg \in Targets :
          ChatBegin("s1", "u1", m, tg, 1, MaxTurns)
    \/ \E t \in TurnIds : LoadDone(t)
    \/ \E t \in TurnIds, c \in ClassifierAnswers, r \in Replies : EngineReturn(t, c, r)
    \/ \E t \in TurnIds : EngineRaise(t)
    \/ \E t \in TurnIds : ChatCommit(t)

SpecEngine == Init /\ [][NextEngine]_vars

\* user messages of the hint specification: a neutral and a frustrated one
HintMessages == { Txt({"hello"}), Txt({"confused", "help"}) }

\* the hint specification: one session, one turn at a time, routed
\* automatically or to a persona the user chose
NextHint ==
    \/ \E m \in HintMessages, tg \in {None, "CEO"} :
          ChatBegin("s1", "u1", m, tg, 1, MaxTurns)
    \/ \E t \in TurnIds : LoadDone(t)
    \/ \E t \in TurnIds, r \in Replies : EngineReturn(t, "CHRO", r)
    \/ \E t \in TurnIds : EngineRaise(t)
    \/ \E t \in TurnIds : ChatCommit(t)

SpecHint == Init /\ [][NextHint]_vars

\* user messages of the chat specification
ChatMessages == { Txt({"hello"}), Txt({"bitcoin"}) }

\* the chat specification: requests for two sessions, overlapping in time
NextChat ==
    \/ \E sid \in SessionIds, m \in ChatMessages, tg \in {None, "CEO"} :
          ChatBegin(sid, "u1", m, tg, MaxInflight, MaxRequests)
    \/ \E t \in TurnIds : LoadDone(t)
    \/ \E t \in TurnIds, c \in {"CHRO"}, r \in Replies : EngineReturn(t, c, r)
    \/ \E t \in TurnIds : EngineRaise(t)
    \/ \E t \in TurnIds : ChatCommit(t)

SpecChat == Init /\ [][NextChat]_vars

-----------------------------------------------------------------------------
(* Sessions with the document store: api/routes/chat.py.  store holds the   *)
(* simulation_states collection, the background saves chat() has added and  *)
(* that have not run yet, and the position of the delete_session call.      *)

\* _get_or_create_session_state_async resumes after the document store
\* answered: the stored document, when there is one, is rebuilt as the
\* session dict (messages as HumanMessage / AIMessage), otherwise a new dict
\* is created; either is stored under the session id and used
LoadOrCreate(t) ==
    /\ turns[t].pc = "load"
    /\ LET req == turns[t].req
           doc == store.simulation_states[req.session_id]
           messages == [i \in 1..Len(doc.messages) |->
                           IF doc.messages[i].role = "user"
                           THEN HumanMessage(doc.messages[i].content, 0)
                           ELSE AIMessage(doc.messages[i].content,
                                          doc.messages[i].agent_id, 0)]
           session_state ==
               IF doc = NoSession THEN NewSessionState(t)
               ELSE [doc EXCEPT !.obj = t, !.messages = messages]
       IN  /\ session_states' = [session_states EXCEPT ![req.session_id] = session_state]
           /\ turns' = [turns EXCEPT ![t] =
                 [pc |-> "engine", req |-> req, obj |-> t,
                  graph_input |-> GraphInput(session_state, req.message,
                                             req.target_agent, t)]]
    /\ UNCHANGED <<safetyVars, nturns, cacheVars, unitVars, extVars>>

\* chat() resumes with the result: it is written into the session dict the
\* coroutine holds, and a copy of that dict is handed to the background task
\* _save_session_state_to_mongo
ChatCommitAndSave(t) ==
    /\ turns[t].pc = "commit"
    /\ LET sid == turns[t].req.session_id
           cur == session_states[sid]
           held == CommitResult(NewSessionState(turns[t].obj), turns[t].result)
       IN  /\ session_states' =
                 IF cur.obj = turns[t].obj
                 THEN [session_states EXCEPT ![sid] = CommitResult(cur, turns[t].result)]
                 ELSE session_states
           /\ store' = [store EXCEPT !.background_tasks =
                 @ \cup {[session_id |-> sid, state |-> held]}]
    /\ turns' = [turns EXCEPT ![t] =
          DoneTurn(turns[t].req.session_id, "committed", AgentName(turns[t].result),
                   turns[t].result.messages[Len(turns[t].result.messages)].content)]
    /\ UNCHANGED <<safetyVars, nturns, cacheVars, unitVars, pending, tierVars, lastCall>>

\* a background _save_session_state_to_mongo runs: the state is written as
\* the session's document (upsert), its messages as role / content / agent_id
SaveSessionState(task) ==
    /\ task \in store.background_tasks
    /\ LET state == task.state
           messages_data == [i \in 1..Len(state.messages) |->
                                [role |-> IF state.messages[i].role = "user"
                                          THEN "user" ELSE "agent",
                                 content |-> state.messages[i].content,
                                 agent_id |-> IF state.messages[i].role = "ai"
                                              THEN state.messages[i].agent_id
                                              ELSE None]]
       IN  store' = [store EXCEPT
              !.simulation_states[task.session_id] =
                  [state EXCEPT !.obj = 1, !.messages = messages_data],
              !.background_tasks = @ \ {task}]
    /\ UNCHANGED <<safetyVars, chatVars, cacheVars, unitVars, pending, tierVars, lastCall>>

\* delete_session up to its first suspension: the session leaves the memory
DeleteSession(session_id) ==
    /\ store.deleting.pc = "idle"
    /\ session_states' = [session_states EXCEPT ![session_id] = NoSession]
    /\ store' = [store EXCEPT !.deleting = [pc |-> "mongo", session_id |-> session_id]]
    /\ UNCHANGED <<safetyVars, turns, nturns, cacheVars, unitVars, pending, tierVars, lastCall>>

\* delete_session resumes: the session's document is deleted and the call
\* returns; after is the number of turns received before it returned
DeleteSessionDone ==
    /\ store.deleting.pc = "mongo"
    /\ store' = [store EXCEPT
          !.simulation_states[store.deleting.session_id] = NoSession,
          !.deleting = [pc |-> "done", session_id |-> store.deleting.session_id,
                        after |-> nturns]]
    /\ UNCHANGED <<safetyVars, chatVars, cacheVars, unitVars, pending, tierVars, lastCall>>

\* the delete specification: turns of one session, overlapping in time, their
\* background saves, and one delete_session call for that session
NextDelete ==
    \/ ChatBegin("s1", "u1", Txt({"hello"}), None, MaxInflight, MaxRequests)
    \/ \E t \in TurnIds : LoadOrCreate(t)
    \/ \E t \in TurnIds, r \in Replies : EngineReturn(t, "CHRO", r)
    \/ \E t \in TurnIds : EngineRaise(t)
    \/ \E t \in TurnIds : ChatCommitAndSave(t)
    \/ \E task \in store.background_tasks : SaveSessionState(task)
    \/ DeleteSession("s1")
    \/ DeleteSessionDone

SpecDelete == Init /\ [][NextDelete]_vars

-----------------------------------------------------------------------------
(* Response cache: engine/cache.py.  The cache key is the pair of the agent *)
(* and the normalized question (the truncated SHA-256 of the two is taken   *)
(* to be collision-free).                                                   *)

\* LRUCache(L1_MAX_SIZE): 500 entries in the source
L1_MAX_SIZE == 2

NO_CACHE_PATTERNS ==
    {"my proposal", "my plan", "i think", "should i", "what if", "how do you feel",
     "remember when", "last time", "you said"}

CACHEABLE_PATTERNS ==
    {"what is", "define", "explain", "what are the", "list the", "describe",
     "who is", "vept framework", "competency"}

\* " ".join(question.lower().strip().split())
_normalize_question(question) == {SanitizePhrase(Lower(p)) : p \in question.phrases}

_hash_question(question, agent_id) ==
    [agent_id |-> agent_id, normalized |-> _normalize_question(question)]

_is_cacheable(question) ==
    LET question_lower == lower(question)
    IN  IF \E pattern \in NO_CACHE_PATTERNS : Contains(question_lower, pattern)
        THEN FALSE
        ELSE \E pattern \in CACHEABLE_PATTERNS : Contains(question_lower, pattern)

\* positions of key in the OrderedDict
KeyIndex(cache, key) == {i \in 1..Len(cache) : cache[i].key = key}

\* OrderedDict.move_to_end(key)
move_to_end(cache, key) ==
    LET i == CHOOSE i \in KeyIndex(cache, key) : TRUE
    IN  Append(SelectSeq(cache, LAMBDA e : e.key # key), cache[i])

\* LRUCache.put(key, value, agent_id)
LRUCache_put(cache, key, value, agent_id) ==
    IF KeyIndex(cache, key) # {}
    THEN move_to_end(cache, key)
    ELSE Append(IF Len(cache) >= L1_MAX_SIZE THEN Tail(cache) ELSE cache,
                [key |-> key, value |-> value, agent_id |-> agent_id])

\* LRUCache.get that does not promote the entry it returns
LRUCache_get_NoPromote(cache, key) ==
    IF KeyIndex(cache, key) # {}
    THEN LET i == CHOOSE i \in KeyIndex(cache, key) : TRUE
         IN  [entry |-> cache[i].value, cache |-> cache]
    ELSE [entry |-> None, cache |-> cache]

\* LRUCache.get(key): [entry, cache], entry None on a miss
LRUCache_get(cache, key) ==
    IF KeyIndex(cache, key) # {}
    THEN LET moved == move_to_end(cache, key)
         IN  [entry |-> moved[Len(moved)].value, cache |-> moved]
    ELSE [entry |-> None, cache |-> cache]

\* ResponseCacheManager.get_cached_response: [result, cache]
get_cached_response(cache, question, agent_id) ==
    IF ~_is_cacheable(question)
    THEN [result |-> None, cache |-> cache]
    ELSE LET l1 == LRUCache_get(cache, _hash_question(question, agent_id))
         IN  [result |-> IF l1.entry # None THEN <<l1.entry, "L1">> ELSE None,
              cache |-> l1.cache]

\* ResponseCacheManager.cache_response: the cache afterwards
cache_response(cache, question, agent_id, response) ==
    IF ~_is_cacheable(question)
    THEN cache
    ELSE LRUCache_put(cache, _hash_question(question, agent_id), response, agent_id)

\* the questions asked of the cache: two spellings of one factual question,
\* another factual question, a third one with single and with double spaces,
\* one with a personal marker, one with neither
CacheQuestions ==
    { Txt({"What is", "VEPT framework"}),
      Txt({"what is", "vept framework"}),
      Txt({"define", "autonomy"}),
      Txt({"what is", "dna"}),
      Txt({"what  is", "dna"}),
      Txt({"what is", "my plan"}),
      Txt({"hello"}) }

CacheAgents == {"CEO", "CHRO"}

CacheTexts == {"answer A", "answer B"}

CacheResponse(question, agent_id, response) ==
    /\ l1_cache' = cache_response(l1_cache, question, agent_id, response)
    /\ lastLookup' = [fresh |-> FALSE, stored |-> TRUE, question |-> question,
                      agent_id |-> agent_id, response |-> response,
                      full |-> Len(l1_cache) >= L1_MAX_SIZE,
                      had |-> KeyIndex(l1_cache, _hash_question(question, agent_id)) # {}]
    /\ UNCHANGED <<safetyVars, chatVars, unitVars, extVars>>

\* get_cached_response is called; the record keeps whether the call before it
\* was a cache_response of the same question and agent, and with which text
GetCachedResponse(question, agent_id) ==
    LET g == get_cached_response(l1_cache, question, agent_id)
        justStored == /\ ~lastLookup.fresh
                      /\ "stored" \in DOMAIN lastLookup
                      /\ lastLookup.question = question
                      /\ lastLookup.agent_id = agent_id
    IN  /\ l1_cache' = g.cache
        /\ lastLookup' = [fresh |-> TRUE, question |-> question, agent_id |-> agent_id,
                          result |-> g.result,
                          justStored |-> justStored,
                          response |-> IF justStored THEN lastLookup.response ELSE None]
        /\ UNCHANGED <<safetyVars, chatVars, unitVars, extVars>>

NextCache ==
    \/ \E q \in CacheQuestions, a \in CacheAgents, r \in CacheTexts : CacheResponse(q, a, r)
    \/ \E q \in CacheQuestions, a \in CacheAgents : GetCachedResponse(q, a)

SpecCache == Init /\ [][NextCache]_vars

-----------------------------------------------------------------------------
(* The cache tiers and invalidate_all: engine/cache.py.  Each LRUCache      *)
(* method runs under the cache's lock and the L3 methods under l3_lock, so  *)
(* each is one step; invalidate_all takes the three locks one after the     *)
(* other and is three steps, between which other threads may run.           *)

\* L3_TTL_SECONDS = 300 in the source: scaled down
L3_TTL_SECONDS == 2

\* len(self.l3_cache) > 100 triggers the cleanup: scaled down
L3_CLEANUP_SIZE == 2

\* LRUCache.invalidate(key)
LRUCache_invalidate(cache, key) ==
    IF key # None
    THEN SelectSeq(cache, LAMBDA e : e.key # key)
    ELSE << >>

\* a dict without the keys in gone
DictWithout(cache, gone) == [q \in DOMAIN cache \ gone |-> cache[q]]

\* ResponseCacheManager.get_rag_cache(query) at time t: [result, cache]
get_rag_cache(cache, query, t) ==
    IF query \in DOMAIN cache
    THEN IF t - cache[query].timestamp < L3_TTL_SECONDS
         THEN [result |-> cache[query].result, cache |-> cache]
         ELSE [result |-> None, cache |-> DictWithout(cache, {query})]
    ELSE [result |-> None, cache |-> cache]

\* ResponseCacheManager._cleanup_l3_cache at time t
_cleanup_l3_cache(cache, t) ==
    DictWithout(cache, {k \in DOMAIN cache : t - cache[k].timestamp > L3_TTL_SECONDS})

\* ResponseCacheManager.cache_rag_result(query, result) at time t
cache_rag_result(cache, query, result, t) ==
    LET c1 == [q \in DOMAIN cache \cup {query} |->
                  IF q = query THEN [result |-> result, timestamp |-> t] ELSE cache[q]]
    IN  IF Cardinality(DOMAIN c1) > L3_CLEANUP_SIZE THEN _cleanup_l3_cache(c1, t) ELSE c1

\* the inputs of the tiers specification: a factual question and a greeting
TierQuestions == { Txt({"what is", "vept framework"}), Txt({"hello"}) }

RagResults == {"documents A", "documents B"}

\* no invalidate_all is running and no store ran since the last one began
Invalidated == inv.pc = "idle" /\ inv.quiet

\* cache_response is called
TierCacheResponse(question, agent_id, response) ==
    /\ l1_cache' = cache_response(l1_cache, question, agent_id, response)
    /\ stored' = stored \cup {l1_cache'[i].value : i \in 1..Len(l1_cache')}
    /\ inv' = [inv EXCEPT !.quiet = FALSE]
    /\ UNCHANGED <<safetyVars, chatVars, unitVars, lastLookup, l2_cache, l3_cache,
                   pending, store, lastCall>>

\* cache_rag_result is called
CacheRagResult(query, result) ==
    /\ l3_cache' = cache_rag_result(l3_cache, query, result, now)
    /\ stored' = stored \cup {result}
    /\ inv' = [inv EXCEPT !.quiet = FALSE]
    /\ UNCHANGED <<safetyVars, chatVars, unitVars, cacheVars, l2_cache, pending, store, lastCall>>

\* get_cached_response is called; the record keeps what it returned and
\* whether the tiers had been invalidated with no store since
TierGetCachedResponse(question, agent_id) ==
    LET g == get_cached_response(l1_cache, question, agent_id)
        hit == /\ _is_cacheable(question)
               /\ KeyIndex(l1_cache, _hash_question(question, agent_id)) # {}
    IN  /\ l1_cache' = g.cache
        /\ lastLookup' = [fresh |-> TRUE, fn |-> "get_cached_response", hit |-> hit,
                          value |-> IF hit THEN g.result[1] ELSE None,
                          invalidated |-> Invalidated, during |-> inv.pc]
        /\ UNCHANGED <<safetyVars, chatVars, unitVars, extVars>>

\* get_rag_cache is called
GetRagCache(query) ==
    LET g == get_rag_cache(l3_cache, query, now)
    IN  /\ l3_cache' = g.cache
        /\ lastLookup' = [fresh |-> TRUE, fn |-> "get_rag_cache", hit |-> g.result # None,
                          value |-> g.result,
                          invalidated |-> Invalidated, during |-> inv.pc]
        /\ UNCHANGED <<safetyVars, chatVars, unitVars, l1_cache, l2_cache, inv, stored,
                       pending, store, lastCall>>

\* invalidate_all: self.l1_cache.invalidate()
InvalidateL1 ==
    /\ inv.pc = "idle"
    /\ l1_cache' = LRUCache_invalidate(l1_cache, None)
    /\ inv' = [pc |-> "l1 cleared", quiet |-> TRUE]
    /\ UNCHANGED <<safetyVars, chatVars, unitVars, lastLookup, l2_cache, l3_cache, stored,
                   pending, store, lastCall>>

\* invalidate_all: self.l2_cache.invalidate()
InvalidateL2 ==
    /\ inv.pc = "l1 cleared"
    /\ l2_cache' = LRUCache_invalidate(l2_cache, None)
    /\ inv' = [inv EXCEPT !.pc = "l2 cleared"]
    /\ UNCHANGED <<safetyVars, chatVars, unitVars, cacheVars, l3_cache, stored,
                   pending, store, lastCall>>

\* invalidate_all returning without clearing the L3 dict
InvalidateL3_KeepsL3 ==
    /\ inv.pc = "l2 cleared"
    /\ inv' = [inv EXCEPT !.pc = "idle"]
    /\ UNCHANGED <<safetyVars, chatVars, unitVars, cacheVars, l2_cache, l3_cache, stored,
                   pending, store, lastCall>>

\* invalidate_all: self.l3_cache.clear() under l3_lock, and the return
InvalidateL3 ==
    /\ inv.pc = "l2 cleared"
    /\ l3_cache' = EmptyDict
    /\ inv' = [inv EXCEPT !.pc = "idle"]
    /\ UNCHANGED <<safetyVars, chatVars, unitVars, cacheVars, l2_cache, stored,
                   pending, store, lastCall>>

NextTiers ==
    \/ \E q \in TierQuestions, r \in CacheTexts : TierCacheResponse(q, "CEO", r)
    \/ \E q \in RagQueries, r \in RagResults : CacheRagResult(q, r)
    \/ \E q \in TierQuestions : TierGetCachedResponse(q, "CEO")
    \/ \E q \in RagQueries : GetRagCache(q)
    \/ InvalidateL1
    \/ InvalidateL2
    \/ InvalidateL3
    \/ Tick

SpecTiers == Init /\ [][NextTiers]_vars

\* the retrieval cache on its own, with enough queries to exceed the
\* cleanup size
RagCacheQueries == {"pillars of the framework", "rollout in europe", "brand dna"}

NextRag ==
    \/ \E q \in RagCacheQueries : CacheRagResult(q, "documents A")
    \/ \E q \in RagCacheQueries : GetRagCache(q)
    \/ Tick

SpecRag == Init /\ [][NextRag]_vars

-----------------------------------------------------------------------------
(* Scores of one session: the Director's detect_sentiment and the persona   *)
(* nodes' update_agent_emotion, applied in any order with any input         *)

\* cap on tension_count in this specification
MaxTension == 2

SentimentMessages ==
    { Txt({"hello"}), Txt({"confused", "help"}), Txt({"thanks"}),
      Txt({"confused", "thanks"}) }

\* relationship_delta: what the persona nodes pass (-0.1, +0.05) and two
\* values larger than the whole range
Deltas == {-10, 5, -120, 120}

EmotionAgents == {"CEO", "CHRO"}

DetectSentiment(message) ==
    /\ emo_state' = [emo_state EXCEPT !.sentiment_score =
          detect_sentiment([user_message |-> message,
                            sentiment_score |-> emo_state.sentiment_score])]
    /\ UNCHANGED <<safetyVars, chatVars, cacheVars, audit_events, lastRoute, extVars>>

\* a memorable event accompanies a tension increase, as in the persona nodes
UpdateAgentEmotion(agent_id, relationship_delta, tension_increase) ==
    /\ tension_increase => emo_state.agent_emotions[agent_id].tension_count < MaxTension
    /\ emo_state' = [emo_state EXCEPT !.agent_emotions =
          update_agent_emotion(emo_state, agent_id, relationship_delta, tension_increase,
                               {"topic"},
                               IF tension_increase THEN MemorableEvent(agent_id) ELSE "")]
    /\ UNCHANGED <<safetyVars, chatVars, cacheVars, audit_events, lastRoute, extVars>>

NextEmotion ==
    \/ \E m \in SentimentMessages : DetectSentiment(m)
    \/ \E a \in EmotionAgents, d \in Deltas, ti \in BOOLEAN : UpdateAgentEmotion(a, d, ti)

SpecEmotion == Init /\ [][NextEmotion]_vars

-----------------------------------------------------------------------------
(* update_agent_emotion called with memorable events: engine/state.py       *)

\* cap on the number of events given to one persona in this specification
MaxEvents == 6

\* the events the persona nodes pass, and no event
MemoryEvents == {MemorableEvent("CEO"), MemorableEvent("CHRO"), ""}

\* lastCall.added is the history of the events passed, per persona
AddMemorableEvent(agent_id, memorable_event) ==
    LET AddedEvents == IF lastCall.fn = "update_agent_emotion" THEN lastCall.added
                       ELSE [a \in EmotionAgents |-> << >>]
    IN  /\ Len(AddedEvents[agent_id]) < MaxEvents
        /\ emo_state' = [emo_state EXCEPT !.agent_emotions =
              update_agent_emotion(emo_state, agent_id, 0, FALSE, {}, memorable_event)]
        /\ lastCall' = [fn |-> "update_agent_emotion", agent_id |-> agent_id,
                        memorable_event |-> memorable_event,
                        added |-> IF memorable_event = "" THEN AddedEvents
                                  ELSE [AddedEvents EXCEPT ![agent_id] =
                                           Append(@, memorable_event)]]
        /\ UNCHANGED <<safetyVars, chatVars, cacheVars, audit_events, lastRoute, pending, store, tierVars>>

NextMemory == \E a \in EmotionAgents, e \in MemoryEvents : AddMemorableEvent(a, e)

SpecMemory == Init /\ [][NextMemory]_vars

-----------------------------------------------------------------------------
(* The Director's functions called on their own, with any state a session   *)
(* can hold: engine/director.py                                             *)

\* cap on stuck_counter in this specification
MaxStuck == 4

StuckValues == 0..MaxStuck

\* scores of a session, in steps of 0.05
SentimentValues == {5 * k : k \in 0..20}

ProgressValues == {DEFAULT_TASK_PROGRESS, [k \in TaskKeys |-> TRUE]}

\* messages with zero, one and two matches of each kind
DirectorMessages ==
    SentimentMessages \cup
    { Txt({"confused"}), Txt({"great", "thanks"}), Txt({"confused", "help", "thanks"}) }

ShouldTriggerHint(stuck_counter, sentiment_score, turn_count, task_progress) ==
    LET state == [stuck_counter |-> stuck_counter, sentiment_score |-> sentiment_score,
                  turn_count |-> turn_count, task_progress |-> task_progress]
    IN  /\ lastCall' = [fn |-> "should_trigger_hint", state |-> state,
                        out |-> should_trigger_hint(state)]
        /\ UNCHANGED <<safetyVars, chatVars, cacheVars, unitVars, pending, store, tierVars>>

DetectSentimentOf(sentiment_score, user_message) ==
    LET state == [user_message |-> user_message, sentiment_score |-> sentiment_score]
    IN  /\ lastCall' = [fn |-> "detect_sentiment", state |-> state,
                        out |-> detect_sentiment(state)]
        /\ UNCHANGED <<safetyVars, chatVars, cacheVars, unitVars, pending, store, tierVars>>

NextDirector ==
    \/ \E k \in StuckValues, v \in SentimentValues, n \in 0..MaxTurns, tp \in ProgressValues :
          ShouldTriggerHint(k, v, n, tp)
    \/ \E v \in SentimentValues, m \in DirectorMessages : DetectSentimentOf(v, m)

SpecDirector == Init /\ [][NextDirector]_vars

-----------------------------------------------------------------------------
(* The keyword scorer called on its own: engine/supervisor.py               *)

\* the words the messages of this specification are made of: two keywords
\* of each persona and a word that is no keyword
RouterWords == {"strategy", "brand", "hr", "feedback", "europe", "rollout", "hello"}

RouterMessages == {Txt(ws) : ws \in SUBSET RouterWords}

FallbackKeywordRoute(user_message) ==
    /\ lastCall' = [fn |-> "_fallback_keyword_route", user_message |-> user_message,
                    out |-> _fallback_keyword_route(user_message)]
    /\ UNCHANGED <<safetyVars, chatVars, cacheVars, unitVars, pending, store, tierVars>>

NextRouter == \E m \in RouterMessages : FallbackKeywordRoute(m)

SpecRouter == Init /\ [][NextRouter]_vars

-----------------------------------------------------------------------------
(* The audit log: SafetyAuditLog in api/middleware/safety.py *)

\* SafetyAuditLog keeps the last 1000 events
MAX_AUDIT_EVENTS == 1000

\* SafetyAuditLog.log_event: the events afterwards (no caller in the source)
log_event(events_before, event_type, user_id, message, result) ==
    LastN(Append(events_before,
                 [event_type |-> event_type, user_id |-> user_id,
                  message_preview |-> message,
                  severity |-> result.severity, blocked |-> ~result.is_safe]),
          MAX_AUDIT_EVENTS)

-----------------------------------------------------------------------------
(* The Supervisor on its own: supervisor_node called on any message, target *)
(* and classifier answer; the classifier call is not guarded, so when the   *)
(* classifier is unavailable the node raises                                *)

SupervisorMessages ==
    { Txt({"hello"}),
      Txt({"What are the 4", "pillars"}),
      Txt({"rollout", "europe"}),
      Txt({"strategy", "hr"}),
      Txt({"brand", "feedback", "coaching"}),
      Txt({"dna", "pilot"}) }

SupervisorTargets == {None, "CEO", "Mentor"}

\* the state supervisor_node reads
SupervisorInput(message, target_agent) ==
    [user_message |-> message,
     next_speaker |-> IF target_agent = None THEN "" ELSE target_agent,
     turn_count |-> 0]

Supervise(message, target_agent, content) ==
    /\ lastRoute' = [fresh |-> TRUE, message |-> message, target_agent |-> target_agent,
                     content |-> content,
                     out |-> supervisor_node(SupervisorInput(message, target_agent),
                                             content).next_speaker]
    /\ UNCHANGED <<safetyVars, chatVars, cacheVars, audit_events, emo_state, extVars>>

\* llm.invoke raises: nothing catches it in supervisor_node
SuperviseUnavailable(message, target_agent) ==
    /\ target_agent \notin ContentAgents
    /\ lastRoute' = [fresh |-> TRUE, message |-> message, target_agent |-> target_agent,
                     content |-> "unavailable", out |-> "raised"]
    /\ UNCHANGED <<safetyVars, chatVars, cacheVars, audit_events, emo_state, extVars>>

NextSupervisor ==
    \/ \E m \in SupervisorMessages, tg \in SupervisorTargets, c \in ClassifierAnswers :
          Supervise(m, tg, c)
    \/ \E m \in SupervisorMessages, tg \in SupervisorTargets : SuperviseUnavailable(m, tg)

SpecSupervisor == Init /\ [][NextSupervisor]_vars

-----------------------------------------------------------------------------
(* Properties of the rate limiter (limiter specification) *)

CallsOf(u) == SelectSeq(calls, LAMBDA c : c.user = u)

BlockDuration == window_seconds * block_multiplier

\* C8: for a user with no prior requests, max_requests requests inside one
\* window are all allowed, the next request inside the same window is denied
\* and starts a block (requests before its end are denied), and the first
\* request made once the block duration has elapsed is allowed again.
C8_WindowBlockRelease ==
    \A u \in Users :
        LET cu == CallsOf(u)
            n  == max_requests
        IN  /\ \A i \in 1..Len(cu) :
                  (i <= n /\ cu[i].t - cu[1].t < window_seconds) => cu[i].ok
            /\ (Len(cu) > n /\ cu[n + 1].t - cu[1].t < window_seconds) =>
                  /\ ~cu[n + 1].ok
                  /\ \A j \in (n + 2)..Len(cu) :
                        IF cu[j].t < cu[n + 1].t + BlockDuration
                        THEN ~cu[j].ok
                        ELSE (\A i \in (n + 2)..(j - 1) :
                                 cu[i].t < cu[n + 1].t + BlockDuration) => cu[j].ok

\* a full window was admitted, the next request was denied, and a request
\* made after the block had elapsed was admitted
C8_Witness ==
    \E u \in Users :
        LET cu == CallsOf(u)
            n  == max_requests
        IN  /\ Len(cu) = n + 2
            /\ cu[n + 1].t - cu[1].t < window_seconds
            /\ \A i \in 1..n : cu[i].ok
            /\ ~cu[n + 1].ok
            /\ cu[n + 2].t >= cu[n + 1].t + BlockDuration
            /\ cu[n + 2].ok

\* the timestamps of the admitted calls of u that are later than cutoff, in
\* call order
AdmittedSince(u, cutoff) ==
    LET adm == SelectSeq(CallsOf(u), LAMBDA c : c.ok /\ c.t > cutoff)
    IN  [i \in 1..Len(adm) |-> adm[i].t]

\* C25: whatever the order in which the sessions' is_allowed calls for one
\* user take the limiter's lock, at most max_requests requests are admitted
\* within any window of window_seconds, and every admitted request that is
\* still inside the window is recorded in the user's request_counts.
C25_AtMostNPerWindow ==
    \A u \in Users :
        /\ \A t \in 0..MaxTime :
              Len(AdmittedSince(u, t - window_seconds)) -
              Len(AdmittedSince(u, t)) <= max_requests
        /\ SelectSeq(request_counts[u], LAMBDA x : x > now - window_seconds) =
              AdmittedSince(u, now - window_seconds)

-----------------------------------------------------------------------------
(* Properties of check_safety (safety specification) *)

\* a pattern of the list matches the sanitized message, ignoring case
MatchesIgnoringCase(patterns, message) ==
    \E pattern \in patterns : \E p \in pattern :
        Lower(p) \in lower(sanitize_input(message)).phrases

\* the first check of the pipeline that fires on the last call
FirstCheckThatFires ==
    LET m == lastCheck.message
    IN  IF lastCheck.limited THEN "rate limit"
        ELSE IF m.len > MAX_MESSAGE_LENGTH THEN "length"
        ELSE IF detect_encoding_tricks(m) THEN "encoding"
        ELSE IF MatchesIgnoringCase(JAILBREAK_PATTERNS, m) THEN "jailbreak"
        ELSE IF MatchesIgnoringCase(BLOCKED_CONTENT_PATTERNS, m) THEN "blocked content"
        ELSE IF MatchesIgnoringCase(OFF_TOPIC_PATTERNS, m) THEN "off-topic"
        ELSE "none"

\* which terminal check a verdict reports
VerdictKind(v) ==
    CASE v.is_safe -> "none"
      [] v.blocked_reason \in {"Rate limited", "Rate limit exceeded"} -> "rate limit"
      [] v.blocked_reason = "Message too long" -> "length"
      [] v.blocked_reason = "Suspicious encoding detected" -> "encoding"
      [] v.blocked_reason = "Jailbreak attempt detected" -> "jailbreak"
      [] v.blocked_reason = "Message contains blocked content" -> "blocked content"
      [] v.blocked_reason = "Off-topic request" -> "off-topic"
      [] OTHER -> "?"

\* C9: check_safety returns the verdict of the first check that fires, in the
\* order rate limit, length, encoding evasion, jailbreak, blocked content,
\* off-topic; a message matching both a jailbreak and an off-topic pattern is
\* reported with jailbreak_attempt true and off_topic false.
C9_FirstCheckDecides ==
    lastCheck.fresh =>
        /\ VerdictKind(lastCheck.verdict) = FirstCheckThatFires
        /\ (FirstCheckThatFires = "jailbreak" /\
            MatchesIgnoringCase(OFF_TOPIC_PATTERNS, lastCheck.message)) =>
              (lastCheck.verdict.jailbreak_attempt /\ ~lastCheck.verdict.off_topic)

\* C10: a message that matches a jailbreak pattern and is not stopped by the
\* rate-limit, length or encoding checks gets is_safe false, jailbreak_attempt
\* true and severity high.
C10_JailbreakBlocked ==
    (/\ lastCheck.fresh
     /\ ~lastCheck.limited
     /\ lastCheck.message.len <= MAX_MESSAGE_LENGTH
     /\ ~detect_encoding_tricks(lastCheck.message)
     /\ MatchesIgnoringCase(JAILBREAK_PATTERNS, lastCheck.message)) =>
        (/\ ~lastCheck.verdict.is_safe
         /\ lastCheck.verdict.jailbreak_attempt
         /\ lastCheck.verdict.severity = "high")

\* C16: every verdict with is_safe false (rate limit, length, encoding,
\* jailbreak, blocked content, off-topic) carries a non-empty
\* suggested_response, so a blocked turn always answers with a redirect.
C16_BlockedCarriesRedirect ==
    (lastCheck.fresh /\ ~lastCheck.verdict.is_safe) =>
        lastCheck.verdict.suggested_response # None

\* C18: after any sequence of check_safety calls the audit log holds the
\* records of the most recent evaluations (at most the last 1000), in order:
\* in particular the latest evaluation is its last record.
C18_EveryCheckLogged ==
    lastCheck.fresh =>
        /\ Len(audit_events) >= 1
        /\ Len(audit_events) <= MAX_AUDIT_EVENTS
        /\ audit_events[Len(audit_events)].blocked = ~lastCheck.verdict.is_safe
        /\ audit_events[Len(audit_events)].severity = lastCheck.verdict.severity

\* the call was not ended by one of the checks before the off-topic one
ReachedOffTopicCheck ==
    /\ lastCheck.fresh
    /\ VerdictKind(lastCheck.verdict) \notin
          {"rate limit", "length", "encoding", "jailbreak", "blocked content"}

PassesBlockingChecks ==
    /\ lastCheck.fresh
    /\ ~lastCheck.limited
    /\ lastCheck.message.len <= MAX_MESSAGE_LENGTH
    /\ ~detect_encoding_tricks(lastCheck.message)
    /\ ~MatchesIgnoringCase(JAILBREAK_PATTERNS, lastCheck.message)
    /\ ~MatchesIgnoringCase(BLOCKED_CONTENT_PATTERNS, lastCheck.message)
    /\ ~MatchesIgnoringCase(OFF_TOPIC_PATTERNS, lastCheck.message)

\* C21: a message that matches a character-break or a manipulation pattern
\* and no blocking pattern gets is_safe true, the flag of each list it matches
\* and severity medium (is_safe true is what lets the turn go on to routing).
C21_FlaggedNotBlocked ==
    (/\ PassesBlockingChecks
     /\ \/ MatchesIgnoringCase(CHARACTER_BREAK_PATTERNS, lastCheck.message)
        \/ MatchesIgnoringCase(MANIPULATION_PATTERNS, lastCheck.message)) =>
        /\ lastCheck.verdict.is_safe
        /\ lastCheck.verdict.severity = "medium"
        /\ MatchesIgnoringCase(CHARACTER_BREAK_PATTERNS, lastCheck.message)
              => lastCheck.verdict.character_break
        /\ MatchesIgnoringCase(MANIPULATION_PATTERNS, lastCheck.message)
              => lastCheck.verdict.manipulation_attempt

\* C22 as stated: every raw message longer than MAX_MESSAGE_LENGTH is blocked
\* with severity low and never carries a jailbreak flag or high severity.
C22_LongMessageLow_Stated ==
    (lastCheck.fresh /\ lastCheck.message.len > MAX_MESSAGE_LENGTH) =>
        /\ ~lastCheck.verdict.is_safe
        /\ lastCheck.verdict.severity = "low"
        /\ ~lastCheck.verdict.jailbreak_attempt

\* C22: a raw message longer than MAX_MESSAGE_LENGTH that is not stopped by
\* the rate limit is blocked by the length check, before the encoding and
\* pattern checks: is_safe false, severity low, no jailbreak flag.
C22_LongMessageLow ==
    (/\ lastCheck.fresh
     /\ ~lastCheck.limited
     /\ lastCheck.message.len > MAX_MESSAGE_LENGTH) =>
        /\ ~lastCheck.verdict.is_safe
        /\ lastCheck.verdict.severity = "low"
        /\ ~lastCheck.verdict.jailbreak_attempt
        /\ VerdictKind(lastCheck.verdict) = "length"

C22_Witness ==
    /\ lastCheck.fresh
    /\ ~lastCheck.limited
    /\ lastCheck.message.len > MAX_MESSAGE_LENGTH
    /\ detect_encoding_tricks(lastCheck.message)
    /\ lastCheck.verdict.severity = "low"

\* the words of a blocked_reason
Words(reason) ==
    CASE reason = "Message too long" -> {"Message", "too", "long"}
      [] reason = "Rate limited" -> {"Rate", "limited"}
      [] reason = "Rate limit exceeded" -> {"Rate", "limit", "exceeded"}
      [] reason = "Suspicious encoding detected" -> {"Suspicious", "encoding", "detected"}
      [] reason = "Jailbreak attempt detected" -> {"Jailbreak", "attempt", "detected"}
      [] reason = "Message contains blocked content" -> {"Message", "contains", "blocked", "content"}
      [] reason = "Off-topic request" -> {"Off-topic", "request"}
      [] OTHER -> {}

\* C27: for a message longer than the maximum length (and not stopped by the
\* rate limit) the blocked_reason contains the word "exceeds".
C27_LengthReasonSaysExceeds ==
    (/\ lastCheck.fresh
     /\ ~lastCheck.limited
     /\ lastCheck.message.len > MAX_MESSAGE_LENGTH) =>
        "exceeds" \in Words(lastCheck.verdict.blocked_reason)

-----------------------------------------------------------------------------
(* Properties of the Supervisor (supervisor specification) *)

\* C17: with no explicit target, when the classifier returns an invalid or
\* unrecognized token or is unavailable, the Supervisor routes by the
\* keyword-overlap scorer ("What are the 4 pillars?" goes to CHRO).
C17_KeywordFallback ==
    (/\ lastRoute.fresh
     /\ lastRoute.target_agent = None
     /\ \/ lastRoute.content = "unavailable"
        \/ Decision(lastRoute.content) \notin valid_speakers) =>
        lastRoute.out = _fallback_keyword_route(lastRoute.message)

-----------------------------------------------------------------------------
(* Properties of a turn through the engine (engine specification) *)

\* the turns whose engine call returned and whose result is about to be committed
Committing == {t \in TurnIds : turns[t].pc = "commit"}

\* the Director's keyword scan of the turn found a task key not yet set
ScanFoundProgress(graph_input) ==
    detect_progress(graph_input) # graph_input.task_progress

\* the step is the commit of turn t into the stored session dict
CommitStep(t) ==
    /\ turns[t].pc = "commit"
    /\ turns'[t].pc = "done"
    /\ session_states[turns[t].req.session_id].obj = turns[t].obj

\* C3: for every completed turn, the committed stuck_counter is 0 if the
\* session's task_progress after the turn differs from its task_progress
\* before the turn, and the previous stuck_counter plus 1 otherwise.
C3_StuckFollowsProgress ==
    [][\A t \in TurnIds :
          CommitStep(t) =>
             LET sid    == turns[t].req.session_id
                 before == session_states[sid]
                 after  == session_states'[sid]
             IN  after.stuck_counter =
                    IF after.task_progress # before.task_progress
                    THEN 0
                    ELSE before.stuck_counter + 1]_vars

\* C4 as stated: on a state with stuck_counter 3, sentiment 0.5 and no
\* explicit choice, the Director (whatever the latest message) sets
\* hint_triggered, makes the Mentor answer and resets stuck_counter to 0.
C4_StuckOverride_Stated ==
    \A t \in Committing :
        (/\ turns[t].graph_input.stuck_counter = STUCK_THRESHOLD
         /\ turns[t].graph_input.sentiment_score = 50
         /\ ~turns[t].graph_input.user_explicit_choice) =>
            (/\ turns[t].result.hint_triggered
             /\ turns[t].result.next_speaker = "Mentor"
             /\ AgentName(turns[t].result) = "Mentor"
             /\ turns[t].result.stuck_counter = 0)

\* C4 amended: the same, for a latest message in which the Director's keyword
\* scan finds no new progress.
C4_StuckOverride ==
    \A t \in Committing :
        (/\ turns[t].graph_input.stuck_counter = STUCK_THRESHOLD
         /\ turns[t].graph_input.sentiment_score = 50
         /\ ~turns[t].graph_input.user_explicit_choice
         /\ ~ScanFoundProgress(turns[t].graph_input)) =>
            (/\ turns[t].result.hint_triggered
             /\ turns[t].result.next_speaker = "Mentor"
             /\ AgentName(turns[t].result) = "Mentor"
             /\ turns[t].result.stuck_counter = 0)

C4_Witness ==
    \E t \in Committing :
        /\ turns[t].graph_input.stuck_counter = STUCK_THRESHOLD
        /\ turns[t].graph_input.sentiment_score = 50
        /\ ~turns[t].graph_input.user_explicit_choice
        /\ ~ScanFoundProgress(turns[t].graph_input)
        /\ turns[t].result.hint_triggered
        /\ AgentName(turns[t].result) = "Mentor"

\* C5: when the request names CEO, CHRO or RegionalManager, that agent is the
\* responder even if the hint conditions hold, hint_triggered stays false and
\* the Director does not force stuck_counter to 0 (it is 0 only on progress).
C5_ExplicitChoiceWins ==
    \A t \in Committing :
        turns[t].req.target_agent \in ContentAgents =>
            /\ AgentName(turns[t].result) = turns[t].req.target_agent
            /\ ~turns[t].result.hint_triggered
            /\ turns[t].result.stuck_counter =
                  IF ScanFoundProgress(turns[t].graph_input)
                  THEN 0
                  ELSE turns[t].graph_input.stuck_counter + 1

\* an explicitly addressed turn on which the hint conditions hold
C5_Witness ==
    \E t \in Committing :
        /\ turns[t].req.target_agent \in ContentAgents
        /\ should_trigger_hint(turns[t].result)
        /\ AgentName(turns[t].result) = turns[t].req.target_agent

\* C6: the Supervisor never outputs Mentor, whatever the classifier answers
\* and whatever target the user names; the Mentor responds only through the
\* Director's override (hint_triggered).
C6_MentorOnlyByOverride ==
    \A t \in Committing :
        /\ turns[t].supervised # "Mentor"
        /\ AgentName(turns[t].result) = "Mentor" => turns[t].result.hint_triggered

\* the user named the Mentor and another agent answered
C6_Witness ==
    \E t \in Committing :
        /\ turns[t].req.target_agent = "Mentor"
        /\ AgentName(turns[t].result) \in ContentAgents

\* C7: when the Supervisor's decision is SafetyBlock, the System agent answers
\* with the fixed redirect and safety_flagged true, whatever the Director
\* computes.
C7_SafetyBlockWins ==
    \A t \in Committing :
        turns[t].supervised = "SafetyBlock" =>
            /\ AgentName(turns[t].result) = "System"
            /\ turns[t].result.messages[Len(turns[t].result.messages)].content
                  = SAFETY_BLOCK_RESPONSE
            /\ turns[t].result.safety_flagged

\* the step is the failure of turn t's engine call
FailureStep(t) ==
    /\ turns[t].pc = "engine"
    /\ turns'[t].pc = "done"
    /\ turns'[t].outcome = "failed"

\* C14: if a turn's engine call fails or is cancelled before it completes,
\* every field of the stored session state (messages, turn_count,
\* stuck_counter, sentiment_score, task_progress, agent_emotions) is as the
\* turn found it: the turn's delta is committed all at once or not at all.
C14_FailedTurnCommitsNothing ==
    [][\A t \in TurnIds :
          FailureStep(t) =>
             LET sid   == turns[t].req.session_id
                 g     == turns[t].graph_input
                 after == session_states'[sid]
             IN  /\ after.obj # 0
                 /\ after.messages = SubSeq(g.messages, 1, Len(g.messages) - 1)
                 /\ after.turn_count = g.turn_count
                 /\ after.stuck_counter = g.stuck_counter
                 /\ after.sentiment_score = g.sentiment_score
                 /\ after.task_progress = g.task_progress
                 /\ after.agent_emotions = g.agent_emotions]_vars

\* the latest turn failed on a session that earlier turns had advanced
C14_Witness ==
    \E t \in TurnIds :
        /\ nturns = t
        /\ turns[t].pc = "done"
        /\ turns[t].outcome = "failed"
        /\ session_states[turns[t].session_id].obj # 0
        /\ session_states[turns[t].session_id].turn_count >= 1
        /\ session_states[turns[t].session_id].stuck_counter >= 1

\* C15: when the generation call or any engine stage raises or times out, the
\* turn returns the fixed apologetic fallback from System instead of an error,
\* and the session's turn counter still advances by one for that turn.
C15_FallbackAndCounter ==
    [][\A t \in TurnIds :
          FailureStep(t) =>
             /\ turns'[t].agent = "System"
             /\ turns'[t].response = ENGINE_ERROR_RESPONSE
             /\ session_states'[turns[t].req.session_id].turn_count =
                   turns[t].graph_input.turn_count + 1]_vars

-----------------------------------------------------------------------------
(* Properties of the stored session state (chat specification) *)

\* the turns on a session whose result chat() committed
CommittedTurns(sid) ==
    {t \in TurnIds : /\ turns[t].pc = "done"
                      /\ turns[t].session_id = sid
                      /\ turns[t].outcome = "committed"}

\* a message with the given role and turn id is in the sequence
HasMessage(messages, role, id) ==
    \E i \in 1..Len(messages) : messages[i].role = role /\ messages[i].id = id

\* C1: once the turns on a session have completed, overlapping or not, the
\* stored state is the one of running them one after the other: the user
\* message and the reply of every committed turn are in messages and
\* turn_count is the number of committed turns (no lost update).
C1_NoLostUpdate ==
    \A sid \in SessionIds :
        (InFlight = {} /\ CommittedTurns(sid) # {}) =>
            /\ session_states[sid].obj # 0
            /\ session_states[sid].turn_count = Cardinality(CommittedTurns(sid))
            /\ \A t \in CommittedTurns(sid) :
                  /\ HasMessage(session_states[sid].messages, "user", t)
                  /\ HasMessage(session_states[sid].messages, "ai", t)

\* C2: once task_progress[key] is true in the stored state of a session, it
\* is true in every later stored state of that session.
C2_ProgressMonotonic ==
    [][\A sid \in SessionIds, k \in TaskKeys :
          (session_states[sid].obj # 0 /\ session_states[sid].task_progress[k]) =>
             (session_states'[sid].obj # 0 /\ session_states'[sid].task_progress[k])]_vars

\* the session a chat() coroutine works for
SessionOf(turn) == IF turn.pc = "done" THEN turn.session_id ELSE turn.req.session_id

\* C23: a step of a turn processed for one session leaves every field of the
\* stored state of every other session unchanged, however the turns of the
\* sessions interleave.
C23_SessionsIndependent ==
    [][\A t \in TurnIds : turns'[t] # turns[t] =>
          \A sid \in SessionIds :
             sid # SessionOf(turns'[t]) => session_states'[sid] = session_states[sid]]_vars

\* a turn of s2 began first and is still waiting to commit while a later turn
\* of s1 has committed: s1 has advanced, s2 has not
C23_Witness ==
    \E t1, t2 \in TurnIds :
        /\ t2 < t1
        /\ turns[t2].pc = "commit" /\ turns[t2].req.session_id = "s2"
        /\ turns[t1].pc = "done" /\ turns[t1].session_id = "s1"
        /\ turns[t1].outcome = "committed"
        /\ session_states["s1"].turn_count = 1
        /\ session_states["s2"].obj # 0
        /\ session_states["s2"].turn_count = 0


-----------------------------------------------------------------------------
(* Properties of the response cache (cache specification) *)

\* C11: for a cacheable question and persona, in any prior cache state,
\* cache_response(q, p, text) followed immediately by get_cached_response(q, p)
\* returns text from tier L1; for a question with a personal/contextual marker
\* the lookup is a miss whatever was stored.
C11_StoreThenLookup ==
    lastLookup.fresh =>
        /\ (lastLookup.justStored /\ _is_cacheable(lastLookup.question)) =>
              lastLookup.result = <<lastLookup.response, "L1">>
        /\ (\E pattern \in NO_CACHE_PATTERNS :
               Contains(lower(lastLookup.question), pattern)) =>
              lastLookup.result = None

\* the keys of the store, least recently touched first
KeysOf(cache) == [i \in 1..Len(cache) |-> cache[i].key]

\* the sequence without the element e
Without(seq, e) == SelectSeq(seq, LAMBDA x : x # e)

\* C31: the L1 store never holds more than L1_MAX_SIZE entries and is kept in
\* the order of the last touch: a get that hits and a put move their key to
\* the most recent end and leave the order of the other keys as it was, and
\* the only entry ever removed is the least recently touched one, by the put
\* of a new key into a full store.
C31_LruBoundAndEviction ==
    [][LET before == KeysOf(l1_cache)
           after  == KeysOf(l1_cache')
           k      == _hash_question(lastLookup'.question, lastLookup'.agent_id)
           isPut  == "stored" \in DOMAIN lastLookup'
           had    == KeyIndex(l1_cache, k) # {}
       IN  /\ Len(after) <= L1_MAX_SIZE
           /\ ~_is_cacheable(lastLookup'.question) => after = before
           /\ (_is_cacheable(lastLookup'.question) /\ ~isPut /\ ~had) => after = before
           /\ (_is_cacheable(lastLookup'.question) /\ had) =>
                 after = Append(Without(before, k), k)
           /\ (_is_cacheable(lastLookup'.question) /\ isPut /\ ~had) =>
                 after = Append(IF Len(before) = L1_MAX_SIZE THEN Tail(before) ELSE before, k)
      ]_vars

\* the put of a new key found the store full: the store is still full, the
\* new key is the most recent one and the entry that was the least recently
\* touched is gone
C31_Witness ==
    /\ "stored" \in DOMAIN lastLookup
    /\ _is_cacheable(lastLookup.question)
    /\ lastLookup.full
    /\ ~lastLookup.had
    /\ Len(l1_cache) = L1_MAX_SIZE
    /\ l1_cache[Len(l1_cache)].key = _hash_question(lastLookup.question, lastLookup.agent_id)
    /\ l1_cache[Len(l1_cache)].value = lastLookup.response

\* C34: after any sequence of updates each persona's memorable_events holds
\* at most 5 entries, and they are the most recently added events in the
\* order they were added.
C34_LastFiveEvents ==
    lastCall.fn = "update_agent_emotion" =>
        \A a \in EmotionAgents :
            LET kept  == emo_state.agent_emotions[a].memorable_events
                added == lastCall.added[a]
            IN  /\ Len(kept) <= 5
                /\ Len(kept) = Min(5, Len(added))
                /\ \A i \in 1..Len(kept) : kept[i] = added[Len(added) - Len(kept) + i]

\* a sixth event was added to a persona and the oldest, a different one, went
C34_Witness ==
    /\ lastCall.fn = "update_agent_emotion"
    /\ lastCall.memorable_event # ""
    /\ Len(lastCall.added[lastCall.agent_id]) = 6
    /\ lastCall.added[lastCall.agent_id][1] # lastCall.added[lastCall.agent_id][2]
    /\ Len(emo_state.agent_emotions[lastCall.agent_id].memorable_events) = 5
    /\ emo_state.agent_emotions[lastCall.agent_id].memorable_events[5] = lastCall.memorable_event

\* the agent_emotions stored for a session; a session that does not exist
\* yet is created with the defaults
AgentEmotionsOf(session_state) ==
    IF session_state.obj = 0
    THEN [a \in ContentAgents |-> create_default_emotional_memory]
    ELSE session_state.agent_emotions

\* C35: only the persona that generated the reply has its EmotionalMemory
\* updated, and only once the turn's generation succeeded: the result of a
\* turn differs from the agent_emotions the turn started from at most in the
\* replying persona's entry (in none when Mentor or System replied), a turn
\* that ends blocked or failed changes no stored state, and the commit stores
\* the result's agent_emotions.
C35_OnlyReplyingPersona ==
    [][\A t \in TurnIds :
          /\ turns'[t].pc = "commit" =>
                \A a \in ContentAgents :
                    a # AgentName(turns'[t].result) =>
                       turns'[t].result.agent_emotions[a] =
                          turns'[t].graph_input.agent_emotions[a]
          /\ (turns[t].pc # "done" /\ turns'[t].pc = "done"
                  /\ turns'[t].outcome # "committed") =>
                session_states' = session_states
          /\ (turns[t].pc = "commit" /\ turns'[t].pc = "done") =>
                LET sid == turns'[t].session_id
                IN  /\ \A other \in SessionIds \ {sid} :
                          session_states'[other] = session_states[other]
                    /\ AgentEmotionsOf(session_states'[sid]) \in
                          {AgentEmotionsOf(session_states[sid]), turns[t].result.agent_emotions}
      ]_vars

\* a turn answered by CHRO and a later one answered by Mentor are committed;
\* CHRO's memory carries the one update and the other personas' the defaults
C35_Witness ==
    /\ \E t1, t2 \in TurnIds :
          /\ t1 < t2
          /\ turns[t1].pc = "done" /\ turns[t1].outcome = "committed" /\ turns[t1].agent = "CHRO"
          /\ turns[t2].pc = "done" /\ turns[t2].outcome = "committed" /\ turns[t2].agent = "Mentor"
    /\ session_states["s1"].obj # 0
    /\ session_states["s1"].agent_emotions["CHRO"].relationship_score = 55
    /\ \A a \in ContentAgents \ {"CHRO"} :
          session_states["s1"].agent_emotions[a] = create_default_emotional_memory

\* the is_allowed call made in this step, when one is made
CallMade == calls'[Len(calls')]

\* C36: the block lasts window_seconds * block_multiplier seconds from the
\* request that exceeded the limit; while the user is blocked every request is
\* denied, is not recorded in the window and does not move blocked_until; the
\* first request after the block has elapsed removes the block record.
C36_BlockDuration ==
    [][Len(calls') = Len(calls) + 1 =>
          LET u == CallMade.user
          IN  /\ (blocked_users[u] = NoBlock /\ blocked_users'[u] # NoBlock) =>
                    /\ ~CallMade.ok
                    /\ blocked_users'[u] = now + window_seconds * block_multiplier
              /\ (blocked_users[u] # NoBlock /\ now < blocked_users[u]) =>
                    /\ ~CallMade.ok
                    /\ request_counts' = request_counts
                    /\ blocked_users' = blocked_users
              /\ (blocked_users[u] # NoBlock /\ now >= blocked_users[u]) =>
                    /\ CallMade.ok
                    /\ blocked_users'[u] = NoBlock
      ]_vars

\* a request set the block, a later one was denied during the block, and the
\* request made when the block had just elapsed was admitted and removed it
C36_Witness ==
    /\ Len(calls) >= max_requests + 3
    /\ LET k == max_requests + 1
       IN  /\ \A i \in 1..max_requests : calls[i].ok
           /\ ~calls[k].ok
           /\ ~calls[k + 1].ok
           /\ calls[k + 1].t > calls[k].t
           /\ calls[k + 2].ok
           /\ calls[k + 2].t = calls[k].t + window_seconds * block_multiplier
    /\ blocked_users["u1"] = NoBlock

\* the turns of a session that passed the SafetyGate and completed in the engine
CompletedTurns(sid) ==
    {t \in TurnIds : /\ turns[t].pc = "done"
                     /\ turns[t].outcome = "committed"
                     /\ turns[t].session_id = sid}

\* C37: in a session turn_count equals the number of turns that passed the
\* SafetyGate and completed in the engine, whether the persona was chosen
\* explicitly or routed automatically; blocked and failed turns do not count.
C37_TurnCountCounts ==
    \A sid \in SessionIds :
        (IF session_states[sid].obj = 0 THEN 0 ELSE session_states[sid].turn_count)
            = Cardinality(CompletedTurns(sid))

\* the turns the SafetyGate stops in this step: they end as they begin
BlockedNow ==
    {t \in TurnIds : /\ turns[t].pc = "idle"
                     /\ turns'[t].pc = "done"
                     /\ turns'[t].outcome \in {"blocked", "error"}}

\* C38: a turn blocked by the SafetyGate neither creates a session nor changes
\* any field of the stored state of an existing session.
C38_BlockedTurnNoEffect ==
    [][BlockedNow # {} => session_states' = session_states]_vars

\* a turn was blocked for a session that does not exist and another for a
\* session with a committed turn: the one still does not exist, the other
\* holds what the committed turn left
C38_Witness ==
    /\ \E t1, t2 \in TurnIds :
          /\ t1 < t2
          /\ turns[t1].pc = "done" /\ turns[t1].outcome = "blocked" /\ turns[t1].session_id = "s2"
          /\ turns[t2].pc = "done" /\ turns[t2].outcome = "blocked" /\ turns[t2].session_id = "s1"
    /\ session_states["s2"] = NoSession
    /\ session_states["s1"].obj # 0
    /\ session_states["s1"].turn_count = 1
    /\ Len(session_states["s1"].messages) = 2
    /\ InFlight = {}

\* no committed turn of the hint specification carried an explicit persona
\* choice: there the classifier always answers CHRO and the explicit choice
\* is CEO, so the CEO replies exactly in the turns with an explicit choice
NoExplicitTurn ==
    \A t \in TurnIds :
        (turns[t].pc = "done" /\ turns[t].outcome = "committed") => turns[t].agent # "CEO"

\* C39: in a session that starts fresh and in which no turn carries an
\* explicit persona choice, the committed stuck_counter is always below
\* STUCK_THRESHOLD: the Director resets it in the turn in which it would
\* reach the threshold.
C39_StuckBelowThreshold ==
    (NoExplicitTurn /\ session_states["s1"].obj # 0) =>
        session_states["s1"].stuck_counter < STUCK_THRESHOLD

\* the third turn without progress was answered by the Mentor and committed
\* with the counter back at 0
C39_Witness ==
    /\ NoExplicitTurn
    /\ session_states["s1"].obj # 0
    /\ session_states["s1"].turn_count = STUCK_THRESHOLD
    /\ session_states["s1"].sentiment_score = 50
    /\ session_states["s1"].stuck_counter = 0
    /\ session_states["s1"].previous_speaker = "Mentor"
    /\ \E t \in TurnIds :
          turns[t].pc = "done" /\ turns[t].outcome = "committed" /\ turns[t].agent = "Mentor"

\* C40: after delete_session for a session id has completed the next turn for
\* that id starts from the default initial state, also when a turn of the
\* session was in flight while the delete ran.
C40_DeletedStaysDeleted ==
    store.deleting.pc = "done" =>
        LET t == store.deleting.after + 1
        IN  (t \in TurnIds /\ turns[t].pc \in {"engine", "commit"}) =>
                turns[t].graph_input =
                    GraphInput(NewSessionState(t), turns[t].req.message,
                               turns[t].req.target_agent, t)

\* the question lower-cased, trimmed and with its whitespace collapsed
Normalized(question) == {SanitizePhrase(Lower(p)) : p \in question.phrases}

\* the entry was stored for the persona and for a question equal, after
\* normalization, to the one looked up
StoredFor(entry, question, agent_id) ==
    /\ entry.key.agent_id = agent_id
    /\ entry.key.normalized = Normalized(question)

\* C33: a lookup for (q2, p2) returns the L1 entry stored for (q1, p1) exactly
\* when p1 = p2 and q1 and q2 are equal after normalization; an entry cached
\* for one persona is never returned for another.
C33_KeyEquivalence ==
    [][lastLookup'.fresh =>
          /\ \A i \in 1..Len(l1_cache) :
                StoredFor(l1_cache[i], lastLookup'.question, lastLookup'.agent_id) =>
                   <<l1_cache[i].value, "L1">> = lastLookup'.result
          /\ lastLookup'.result # None =>
                \E i \in 1..Len(l1_cache) :
                   /\ StoredFor(l1_cache[i], lastLookup'.question, lastLookup'.agent_id)
                   /\ <<l1_cache[i].value, "L1">> = lastLookup'.result
      ]_vars

-----------------------------------------------------------------------------
(* Properties of the cache tiers (tiers specification) *)

\* C24: once invalidate_all has returned and no store has run since it began,
\* L1, L2 and L3 are empty and every lookup misses until the next store; a
\* get_cached_response or get_rag_cache, whether or not it runs between the
\* steps of invalidate_all, returns a value stored earlier or a miss.
C24_InvalidateAll ==
    /\ Invalidated =>
          /\ l1_cache = << >>
          /\ l2_cache = << >>
          /\ l3_cache = EmptyDict
    /\ (lastLookup.fresh /\ lastLookup.invalidated) => ~lastLookup.hit
    /\ lastLookup.fresh =>
          IF lastLookup.hit THEN lastLookup.value \in stored ELSE lastLookup.value = None

\* both tiers held a value, invalidate_all ran to its end with no store
\* meanwhile, and a lookup made afterwards missed
C24_Witness ==
    /\ Invalidated
    /\ CacheTexts \cap stored # {}
    /\ RagResults \cap stored # {}
    /\ lastLookup.fresh
    /\ lastLookup.invalidated
    /\ ~lastLookup.hit

\* a lookup that ran between two steps of invalidate_all and returned a value
C24_WitnessConcurrent ==
    /\ lastLookup.fresh
    /\ lastLookup.during = "l1 cleared"
    /\ lastLookup.fn = "get_rag_cache"
    /\ lastLookup.hit

\* the age of the entry has reached the TTL at time t
Expired(entry, t) == t - entry.timestamp >= L3_TTL_SECONDS

\* C32: get_rag_cache returns the cached result exactly while the entry's age
\* is below the TTL, an entry read at or after expiry is removed and reported
\* as a miss, and a cache_rag_result that leaves more than L3_CLEANUP_SIZE
\* entries in the table purges every expired entry.
C32_TtlAndPurge ==
    [][/\ \A q \in RagCacheQueries : GetRagCache(q) =>
             IF q \in DOMAIN l3_cache /\ ~Expired(l3_cache[q], now)
             THEN lastLookup'.hit /\ lastLookup'.value = l3_cache[q].result
                  /\ l3_cache' = l3_cache
             ELSE ~lastLookup'.hit /\ q \notin DOMAIN l3_cache'
       /\ \A q \in RagCacheQueries :
             (/\ CacheRagResult(q, "documents A")
              /\ Cardinality(DOMAIN l3_cache \cup {q}) > L3_CLEANUP_SIZE) =>
                \A k \in DOMAIN l3_cache' : ~Expired(l3_cache'[k], now)
      ]_vars

-----------------------------------------------------------------------------
(* Properties of the Director's functions (director specification) *)

\* C26: should_trigger_hint is true exactly when stuck_counter >= 3 or
\* sentiment_score < 0.3, and its value does not depend on turn_count or
\* task_progress.
C26_HintCondition ==
    lastCall.fn = "should_trigger_hint" =>
        /\ lastCall.out = (lastCall.state.stuck_counter >= 3 \/
                           lastCall.state.sentiment_score < 30)
        /\ \A n \in 0..MaxTurns, tp \in ProgressValues :
              should_trigger_hint([lastCall.state EXCEPT !.turn_count = n,
                                                         !.task_progress = tp]) = lastCall.out

\* many turns and every task done, neither stuck nor frustrated: no hint
C26_Witness ==
    /\ lastCall.fn = "should_trigger_hint"
    /\ lastCall.state.turn_count = MaxTurns
    /\ lastCall.state.task_progress = [k \in TaskKeys |-> TRUE]
    /\ lastCall.state.stuck_counter = 2
    /\ lastCall.state.sentiment_score = 30
    /\ ~lastCall.out

\* the numbers of negative and of positive signals in a message
NegativeMatches(message) == Cardinality({sg \in negative_signals : Contains(lower(message), sg)})
PositiveMatches(message) == Cardinality({sg \in positive_signals : Contains(lower(message), sg)})

\* C29: detect_sentiment returns the old score minus 0.15, floored at 0.0,
\* when the negative matches outnumber the positive ones, the old score plus
\* 0.1, capped at 1.0, when the positive ones outnumber the negative ones,
\* and the old score on a tie, whatever the number of matches.
C29_SentimentStep ==
    lastCall.fn = "detect_sentiment" =>
        LET old == lastCall.state.sentiment_score
            neg == NegativeMatches(lastCall.state.user_message)
            pos == PositiveMatches(lastCall.state.user_message)
        IN  /\ neg > pos => lastCall.out = (IF old - 15 < 0 THEN 0 ELSE old - 15)
            /\ pos > neg => lastCall.out = (IF old + 10 > 100 THEN 100 ELSE old + 10)
            /\ pos = neg => lastCall.out = old

\* two negative matches and no positive one move the score by one step
C29_Witness ==
    /\ lastCall.fn = "detect_sentiment"
    /\ NegativeMatches(lastCall.state.user_message) = 2
    /\ PositiveMatches(lastCall.state.user_message) = 0
    /\ lastCall.state.sentiment_score = 50
    /\ lastCall.out = 35

-----------------------------------------------------------------------------
(* Properties of the keyword scorer (router specification) *)

\* the keyword score of a persona on a message
KeywordScore(persona, message) ==
    LET keywords == CASE persona = "CEO" -> ceo_keywords
                      [] persona = "CHRO" -> chro_keywords
                      [] persona = "RegionalManager" -> regional_keywords
    IN  Cardinality({kw \in keywords : Contains(lower(message), kw)})

\* the place of a persona in the priority order CEO, CHRO, RegionalManager
Priority(persona) ==
    CASE persona = "CEO" -> 1 [] persona = "CHRO" -> 2 [] persona = "RegionalManager" -> 3

\* C30: _fallback_keyword_route returns a persona whose keyword score is
\* maximal among the three, the first in the order CEO, CHRO,
\* RegionalManager among those with the maximal score, and so CEO when all
\* scores are zero.
C30_FallbackMaxScore ==
    lastCall.fn = "_fallback_keyword_route" =>
        LET m == lastCall.user_message
        IN  /\ lastCall.out \in ContentAgents
            /\ \A a \in ContentAgents :
                  \/ KeywordScore(a, m) < KeywordScore(lastCall.out, m)
                  \/ /\ KeywordScore(a, m) = KeywordScore(lastCall.out, m)
                     /\ Priority(lastCall.out) <= Priority(a)
            /\ (\A a \in ContentAgents : KeywordScore(a, m) = 0) => lastCall.out = "CEO"

\* CHRO and RegionalManager tie above CEO: CHRO is returned
C30_Witness ==
    /\ lastCall.fn = "_fallback_keyword_route"
    /\ KeywordScore("CEO", lastCall.user_message) = 1
    /\ KeywordScore("CHRO", lastCall.user_message) = 2
    /\ KeywordScore("RegionalManager", lastCall.user_message) = 2
    /\ lastCall.out = "CHRO"

-----------------------------------------------------------------------------
(* Properties of the Director's override (hint specification) *)

\* the turn is routed automatically and follows a turn the Mentor answered,
\* which the Mentor does only on an override of the Director
FollowsOverride(t) ==
    /\ turns[t].pc = "commit"
    /\ turns[t].graph_input.previous_speaker = "Mentor"
    /\ ~turns[t].graph_input.user_explicit_choice

-----------------------------------------------------------------------------
(* Properties of the scores (scores specification) *)

\* C12: starting from a new session (sentiment 0.5), sentiment_score stays
\* within [0.0, 1.0] after any sequence of turns and messages.
C12_SentimentInRange ==
    emo_state.sentiment_score >= 0 /\ emo_state.sentiment_score <= 100

\* the bottom of the range was reached and a further negative message keeps it there
C12_Witness ==
    /\ emo_state.sentiment_score = 0
    /\ detect_sentiment([user_message |-> Txt({"confused", "help"}),
                         sentiment_score |-> emo_state.sentiment_score]) = 0

\* C13: for every persona, relationship_score stays within [0.0, 1.0] after
\* any sequence of update_agent_emotion calls with any delta, and
\* tension_count never decreases.
C13_RelationshipInRange ==
    [][\A a \in ContentAgents :
          /\ emo_state'.agent_emotions[a].relationship_score >= 0
          /\ emo_state'.agent_emotions[a].relationship_score <= 100
          /\ emo_state'.agent_emotions[a].tension_count >=
                emo_state.agent_emotions[a].tension_count]_vars

\* a persona driven to the bottom of the range, another to the top, with tension
C13_Witness ==
    /\ emo_state.agent_emotions["CEO"].relationship_score = 0
    /\ emo_state.agent_emotions["CEO"].tension_count = MaxTension
    /\ emo_state.agent_emotions["CHRO"].relationship_score = 100

====
